---- MODULE Spec2Model ----
(***************************************************************************)
(* A model of the best-first prefix search of Monument                     *)
(* (src/search/src/lib.rs, src/search/src/frontier.rs) and of the pieces   *)
(* of the orchestration around it.  Three specifications:                  *)
(*   Spec          search_lowered on a family of small graphs;             *)
(*   SpecFrontier  the BestFirst frontier under an arbitrary client;       *)
(*   SpecAbort     Query::search, its worker threads and the abort flag.   *)
(*                                                                         *)
(* Conventions.                                                            *)
(*  - Rust's Option<T> is a sequence of length 0 (None) or 1 (Some).       *)
(*  - Indices are 1-based (a Rust index k is k+1 here).                    *)
(*  - Score is OrderedFloat<f32>; scores are small integers here and an    *)
(*    average score/length is kept as the exact fraction in lowest terms,  *)
(*    so that two averages are equal iff the fractions are (f32 division   *)
(*    is correctly rounded and monotone, and the fractions that occur have *)
(*    numerators and denominators far below 2^24).                         *)
(*  - std::collections::BinaryHeap is modelled by its contract: a bag of   *)
(*    nodes, pop removes a greatest node (any of them when several compare *)
(*    equal), into_vec returns the nodes in an arbitrary order.            *)
(***************************************************************************)
EXTENDS Integers, Sequences, FiniteSets, Bags, TLC

\* ------------------------------------------------------------------ bounds
\* Largest score given to the score-parametrised nodes of the graphs.
MaxScore == 2
\* Largest data.num_comps tried (0 is the smallest).
MaxNumComps == 2
\* Largest data.queue_limit tried (0 is the smallest).
MaxQueueLimit == 3
\* Largest len_range.end tried.
MaxLenEnd == 4

\* ------------------------------------------------------------- Option<T>
None == <<>>
Some(x) == <<x>>
IsSome(o) == Len(o) = 1

\* ---------------------------------------------------------------- scores
Abs(x) == IF x < 0 THEN -x ELSE x

RECURSIVE Gcd(_, _)
Gcd(a, b) == IF b = 0 THEN a ELSE Gcd(b, a % b)

\* score / length as f32, for length > 0: the fraction in lowest terms.
Div(score, length) ==
  LET g == Gcd(Abs(score), length)
  IN  [n |-> score \div g, d |-> length \div g]

\* OrderedFloat::cmp on two averages: "Less", "Equal" or "Greater".
ScoreCmp(x, y) ==
  IF x.n * y.d < y.n * x.d THEN "Less"
  ELSE IF x.n * y.d > y.n * x.d THEN "Greater"
  ELSE "Equal"

\* ------------------------------------------------------------ CompPrefix
\* A mutation of CompPrefix::new: the division by the length left out.
CompPrefix_new_no_division(path, node_idx, unreachable_nodes, score, length) ==
  [path |-> path, node_idx |-> node_idx, unreachable_nodes |-> unreachable_nodes,
   score |-> score, length |-> length, avg_score |-> Div(score, 1)]

\* CompPrefix::new
CompPrefix_new(path, node_idx, unreachable_nodes, score, length) ==
  [path |-> path, node_idx |-> node_idx, unreachable_nodes |-> unreachable_nodes,
   score |-> score, length |-> length, avg_score |-> Div(score, length)]

\* A mutation of the ordering: the comparison reversed.
CompPrefix_cmp_reversed(a, b) == ScoreCmp(b.avg_score, a.avg_score)

\* impl Ord for CompPrefix: prefixes are ordered by avg_score alone.
CompPrefix_cmp(a, b) == ScoreCmp(a.avg_score, b.avg_score)

\* CompPath, a reverse linked list: Start(i), or Cons(lhs, link) for the path
\* lhs followed by one more link.
CompPath_Start(idx) == [tag |-> "Start", idx |-> idx]
CompPath_Cons(lhs, link_idx) == [tag |-> "Cons", lhs |-> lhs, link |-> link_idx]

\* A mutation of flatten_recursive: the link is pushed before the recursion.
RECURSIVE flatten_recursive_push_first(_, _)
flatten_recursive_push_first(self, out) ==
  IF self.tag = "Start" THEN <<self.idx, out>>
  ELSE flatten_recursive_push_first(self.lhs, Append(out, self.link))

\* CompPath::flatten_recursive: the start index returned, and `out` after the
\* call. Cons flattens lhs into out first and pushes its own link after.
RECURSIVE flatten_recursive(_, _)
flatten_recursive(self, out) ==
  IF self.tag = "Start" THEN <<self.idx, out>>
  ELSE CHOOSE r \in {<<lhs[1], Append(lhs[2], self.link)>> :
                       lhs \in {flatten_recursive(self.lhs, out)}} : TRUE

\* CompPath::flatten: (start_idx, links), links collected into an empty Vec.
CompPath_flatten(p) == flatten_recursive(p, << >>)

\* The two components of a flattened path.
PathStart(p) == CompPath_flatten(p)[1]
PathLinks(p) == CompPath_flatten(p)[2]

\* ------------------------------------------------------------- BestFirst
BagOf(x) == SetToBag({x})

RECURSIVE SeqToBag(_)
SeqToBag(s) == IF s = <<>> THEN EmptyBag ELSE BagOf(Head(s)) (+) SeqToBag(Tail(s))

\* Every order in which the nodes of a heap can be laid out in a vector.
RECURSIVE Vecs(_)
Vecs(heap) ==
  IF heap = EmptyBag THEN {<<>>}
  ELSE UNION {{<<e>> \o v : v \in Vecs(heap (-) BagOf(e))} : e \in BagToSet(heap)}

\* The greatest nodes of a heap under Ord.
Greatest(heap) ==
  {p \in BagToSet(heap) : \A q \in BagToSet(heap) : CompPrefix_cmp(p, q) # "Less"}

BestFirst_default == EmptyBag

BestFirst_len(heap) == BagCardinality(heap)

BestFirst_push(heap, node) == heap (+) BagOf(node)

\* BinaryHeap::pop: the set of (node, heap afterwards) pairs it can return;
\* empty iff the heap is empty (pop returns None).
BestFirst_pop(heap) ==
  {[node |-> p, heap |-> heap (-) BagOf(p)] : p \in Greatest(heap)}

\* Insertion of x into a vector sorted by |a, b| b.cmp(a), after every
\* element that does not have to follow it (the sort is stable).
RECURSIVE InsertDesc(_, _)
InsertDesc(sorted, x) ==
  IF sorted = <<>> THEN <<x>>
  ELSE IF CompPrefix_cmp(x, Head(sorted)) = "Greater"
       THEN <<x>> \o sorted
       ELSE <<Head(sorted)>> \o InsertDesc(Tail(sorted), x)

\* nodes.sort_by(|a, b| b.cmp(a)): stable, highest score first.
RECURSIVE SortDesc(_)
SortDesc(v) ==
  IF v = <<>> THEN <<>>
  ELSE CHOOSE r \in {InsertDesc(sorted, v[Len(v)]) :
                      sorted \in {SortDesc(SubSeq(v, 1, Len(v) - 1))}} : TRUE

\* A mutation of drain: the front of the vector is removed instead.
Drain_front(nodes, len) ==
  IF len < Len(nodes) THEN SubSeq(nodes, Len(nodes) - len + 1, Len(nodes)) ELSE nodes

\* if len < nodes.len() { nodes.drain(len..); }
Drain(nodes, len) == IF len < Len(nodes) THEN SubSeq(nodes, 1, len) ELSE nodes

\* BestFirst::truncate: the heaps it can leave behind.
BestFirst_truncate(heap, len) ==
  {SeqToBag(Drain(SortDesc(v), len)) : v \in Vecs(heap)}

\* ----------------------------------------------------------------- graphs
\* A node of the lowered graph (graph::Node as search_lowered reads it):
\* length, score, falseness (the set bits of the BitVec), succs (a sequence
\* of <<link_idx, succ_idx>>) and end_label (an Option).
Node(length, score, falseness, succs, end_label) ==
  [length |-> length, score |-> score, falseness |-> falseness,
   succs |-> succs, end_label |-> end_label]

\* graph.starts: a sequence of (node_idx, label).
Start(node_idx, label) == [node |-> node_idx, label |-> label]

ScoreRange == 0 .. MaxScore

\* Two routes to an end, a short one (score a) and a longer one (score b).
GraphDiamond(a, b) ==
  [nodes |-> << Node(1, 0, {1}, << <<1, 2>>, <<2, 3>> >>, None),
                Node(1, a, {2}, << >>, Some("x")),
                Node(1, 0, {3}, << <<3, 4>> >>, None),
                Node(1, b, {4}, << >>, Some("y")) >>,
   starts |-> << Start(1, "s") >>]

\* A cycle closed off by falseness; the end node has a successor.
GraphCycle(a, b) ==
  [nodes |-> << Node(1, a, {1}, << <<1, 2>> >>, None),
                Node(1, b, {2}, << <<2, 1>>, <<3, 2>>, <<4, 3>> >>, None),
                Node(1, -1, {3}, << <<5, 1>> >>, Some("x")) >>,
   starts |-> << Start(1, "s"), Start(2, "t") >>]

\* No falseness at all: node 1 may be repeated up to the length bound.
GraphRepeat(a, b) ==
  [nodes |-> << Node(1, a, {}, << <<1, 1>>, <<2, 2>> >>, None),
                Node(1, b, {}, << <<3, 1>> >>, Some("x")) >>,
   starts |-> << Start(1, "s") >>]

\* Several starts, one of them twice, one an end too, one as long as the
\* largest length bound.
GraphStarts(a, b) ==
  [nodes |-> << Node(2, a, {1}, << >>, Some("x")),
                Node(1, b, {2}, << <<1, 3>> >>, None),
                Node(1, 1, {3}, << >>, Some("y")),
                Node(MaxLenEnd, 0, {4}, << >>, Some("z")) >>,
   starts |-> << Start(1, "s"), Start(2, "t"), Start(2, "u"), Start(4, "v") >>]

\* A wide fan-out with equal averages.
GraphFan(a, b) ==
  [nodes |-> << Node(1, 0, {1}, << <<1, 2>>, <<2, 3>>, <<3, 4>>, <<4, 5>> >>, None),
                Node(1, a, {2}, << <<5, 5>> >>, None),
                Node(1, a, {3}, << <<6, 5>> >>, None),
                Node(2, b, {4}, << <<7, 5>> >>, None),
                Node(1, 0, {5}, << >>, Some("x")) >>,
   starts |-> << Start(1, "s") >>]

\* Falseness between different nodes: 1 excludes 3, 2 excludes 4.
GraphCross(a, b) ==
  [nodes |-> << Node(1, 0, {1, 3}, << <<1, 2>>, <<2, 3>> >>, None),
                Node(1, a, {2, 4}, << <<3, 3>>, <<4, 4>>, <<5, 5>> >>, None),
                Node(1, b, {3}, << >>, Some("x")),
                Node(1, b, {4}, << >>, Some("y")),
                Node(1, 1, {5}, << >>, Some("z")) >>,
   starts |-> << Start(1, "s") >>]

\* A graph without nodes: the frontier starts empty.
GraphEmpty == [nodes |-> << >>, starts |-> << >>]

Graphs ==
  {GraphEmpty} \cup
  UNION {{GraphDiamond(a, b), GraphCycle(a, b), GraphRepeat(a, b),
          GraphStarts(a, b), GraphFan(a, b), GraphCross(a, b)} :
         a \in ScoreRange, b \in ScoreRange}

\* data.len_range is a half-open Range<usize>; it may be empty.
LenRanges ==
  {[start |-> s, end |-> e] : s \in 1 .. MaxLenEnd, e \in 1 .. MaxLenEnd}

\* The part of monument_graph::Data that search_lowered reads.
Datas ==
  {[len_range |-> r, num_comps |-> n, queue_limit |-> q] :
     r \in LenRanges, n \in 0 .. MaxNumComps, q \in 0 .. MaxQueueLimit}

\* Range::contains
Range_contains(r, x) == r.start <= x /\ x < r.end

\* ------------------------------------------------------------------ state
VARIABLES
  graph,     \* the lowered graph being searched
  data,      \* len_range, num_comps, queue_limit
  frontier,  \* the BestFirst frontier
  comps,     \* the compositions emitted so far, in emission order
  pc,        \* "starts", "loop", "expand" or "done"
  prefix,    \* Option: the prefix popped by the current loop iteration
  i,         \* the position of the running for loop (starts or succs)
  last_op,   \* the last operation a frontier client made, with its result
  stats,     \* how many nodes were pushed, popped and removed by truncate
  abort_flag,  \* the shared AtomicBool
  search_pc,   \* where Query::search is: "call", "stored", "running", "returned"
  workers,     \* per worker thread: its place in its loop and what it has left
  channel,     \* the bounded update channel, oldest update first
  collector,   \* the collector's state
  delivered,   \* the updates handed to update_fn, in order
  cli_main,    \* where the command line's main is, with what it has spawned
  cli_threads, \* per search thread: its place and the compositions it found
  cli_mutex,   \* the Mutex around the shared list: 0 or the thread holding it
  cli_comps,   \* the Vec<Comp> inside the Mutex
  cli_sorted,  \* Option: the sorted copy main prints at the end
  build_args,      \* from_layout's arguments: layout, max_length, allow_false
  build_pc,        \* "idle", "dijkstra", "predecessors", "done" or "split"
  build_frontier,  \* build_graph's frontier of (chunk id, distance)
  expanded_chunks, \* build_graph's map: chunk id -> (chunk range, distance)
  end_chunks,      \* build_graph's end_chunks
  chunks,          \* from_layout's map: chunk id -> Chunk
  pred_todo,       \* the ids the predecessor loop has still to visit
  build_log,       \* the bag of build_graph's pops, each with what became of it
  split_graphs,    \* what split_by_start_chunk returned for the graph built
  opt_pc,        \* "idle", "call", "for", "passes", "compare" or "returned"
  opt_args,      \* optimise_with_iter_limit's arguments: passes, limit
  opt_graph,     \* the graph being optimised (`self`)
  opt_last_size, \* last_size
  opt_iter,      \* how many iterations of `for _ in 0..limit` have begun
  opt_pass_idx,  \* run_passes: the index of the next pass to run
  opt_log,       \* the last Pass::run: its pass and the calls of its body
  opt_call,      \* how many times optimise has been called on the graph
  opt_entry,     \* the graph as the running call of optimise received it
  opt_sizes,     \* the sizes the running call measured, one per run
  opt_stop,      \* how the running call returned: "not_smaller" or "limit"
  lib_call,      \* the library function last called, with its arguments
  lib_result,    \* what that call returned, or that it panicked
  rows_pc,       \* "idle", "first part", "other parts", "returned", "panicked"
  rows_query,    \* the Query given to Composition::rows
  rows_self,     \* the Composition: the path read so far, and its length
  first_part,    \* the Block `first_part` of Composition::rows
  rows_comp,     \* the Block `comp` it returned, or how it panicked
  eng_pc,        \* "idle", "compose", "running", "returned"
  eng_args,      \* the worker's graph, its start nodes and len_range.end
  falseness_count, \* NodePayload::falseness_count of every node
  comp_prefix,   \* EngineWorker::comp_prefix
  eng_stack,     \* the calls of expand_node in progress, the innermost last
  eng_last,      \* the call of expand_node that returned last
  iter_pc,       \* "idle", "block", "iterating", "dropped" or "panicked"
  block_op,      \* the operation last made on the Block, and what it gave
  iter_block,    \* the Block; RepeatIter::block once repeat_iter is called
  current_block_head, \* RepeatIter::current_block_head
  iter_idx,      \* how many items RepeatIter::iter has yielded
  iter_items     \* what the calls of next() returned, the latest last

vars == <<graph, data, frontier, comps, pc, prefix, i, last_op, stats,
          abort_flag, search_pc, workers, channel, collector, delivered,
          cli_main, cli_threads, cli_mutex, cli_comps, cli_sorted,
          build_args, build_pc, build_frontier, expanded_chunks, end_chunks,
          chunks, pred_todo, build_log, split_graphs,
          opt_pc, opt_args, opt_graph, opt_last_size, opt_iter, opt_pass_idx,
          opt_log, opt_call, opt_entry, opt_sizes, opt_stop,
          lib_call, lib_result,
          rows_pc, rows_query, rows_self, first_part, rows_comp,
          eng_pc, eng_args, falseness_count, comp_prefix, eng_stack, eng_last,
          iter_pc, block_op, iter_block, current_block_head, iter_idx,
          iter_items>>

\* The variables only the frontier's clients below write.
clientVars == <<last_op, stats>>
\* The variables only search_lowered writes.
searchVars == <<graph, data, comps, pc, prefix, i>>
\* The variables of Query::search and its threads.
abortVars == <<abort_flag, search_pc, workers, channel, collector, delivered>>

\* The variables of the command line's main and its search threads.
cliVars == <<cli_main, cli_threads, cli_mutex, cli_comps, cli_sorted>>
\* The variables of the specifications further down.
\* The variables of Graph::from_layout.
buildVars == <<build_args, build_pc, build_frontier, expanded_chunks,
               end_chunks, chunks, pred_todo, build_log, split_graphs>>
\* The variables of Graph::optimise.
optVars == <<opt_pc, opt_args, opt_graph, opt_last_size, opt_iter,
             opt_pass_idx, opt_log, opt_call, opt_entry, opt_sizes, opt_stop>>
\* The variables of the calls of library functions.
libVars == <<lib_call, lib_result>>
\* The variables of Composition::rows.
rowsVars == <<rows_pc, rows_query, rows_self, first_part, rows_comp>>
\* The variables of EngineWorker::compose.
engVars == <<eng_pc, eng_args, falseness_count, comp_prefix, eng_stack, eng_last>>
\* The variables of a RepeatIter.
iterVars == <<iter_pc, block_op, iter_block, current_block_head, iter_idx,
              iter_items>>
laterVars == <<cliVars, buildVars, optVars, libVars, rowsVars, engVars, iterVars>>
\* The variables of the specifications above.
firstVars == <<frontier, searchVars, clientVars, abortVars>>
\* What the command line's actions leave alone, and what from_layout's do.
notCliVars == <<firstVars, buildVars, optVars, libVars, rowsVars, engVars, iterVars>>
notBuildVars == <<firstVars, cliVars, optVars, libVars, rowsVars, engVars, iterVars>>
notOptVars == <<firstVars, cliVars, buildVars, libVars, rowsVars, engVars, iterVars>>
notLibVars == <<firstVars, cliVars, buildVars, optVars, rowsVars, engVars, iterVars>>
notRowsVars == <<firstVars, cliVars, buildVars, optVars, libVars, engVars, iterVars>>
notEngVars == <<firstVars, cliVars, buildVars, optVars, libVars, rowsVars, iterVars>>
notIterVars == <<firstVars, cliVars, buildVars, optVars, libVars, rowsVars, engVars>>

\* The command line before main runs.
CliIdle ==
  /\ cli_main = [at |-> "idle", spawned |-> 0, joined |-> 0]
  /\ cli_threads = <<>>
  /\ cli_mutex = 0
  /\ cli_comps = <<>>
  /\ cli_sorted = <<>>

\* Graph::from_layout before it is called.
BuildIdle ==
  /\ build_args = <<>>
  /\ build_pc = "idle"
  /\ build_frontier = EmptyBag
  /\ expanded_chunks = <<>>
  /\ end_chunks = <<>>
  /\ chunks = <<>>
  /\ pred_todo = {}
  /\ build_log = EmptyBag
  /\ split_graphs = <<>>

\* Graph::optimise before it is called.
OptIdle ==
  /\ opt_pc = "idle"
  /\ opt_args = <<>>
  /\ opt_graph = <<>>
  /\ opt_last_size = <<>>
  /\ opt_iter = 0
  /\ opt_pass_idx = 0
  /\ opt_log = <<>>
  /\ opt_call = 0
  /\ opt_entry = <<>>
  /\ opt_sizes = <<>>
  /\ opt_stop = ""

\* No library function has been called.
LibIdle ==
  /\ lib_call = <<>>
  /\ lib_result = <<>>

\* Composition::rows before it is called.
RowsIdle ==
  /\ rows_pc = "idle"
  /\ rows_query = <<>>
  /\ rows_self = <<>>
  /\ first_part = <<>>
  /\ rows_comp = <<>>

\* EngineWorker::compose before it is called.
EngIdle ==
  /\ eng_pc = "idle"
  /\ eng_args = <<>>
  /\ falseness_count = <<>>
  /\ comp_prefix = <<>>
  /\ eng_stack = <<>>
  /\ eng_last = <<>>

\* No Block and no RepeatIter has been made.
IterIdle ==
  /\ iter_pc = "idle"
  /\ block_op = <<>>
  /\ iter_block = <<>>
  /\ current_block_head = <<>>
  /\ iter_idx = 0
  /\ iter_items = <<>>

\* The state of the specifications further down while they do not run.
LaterIdle ==
  CliIdle /\ BuildIdle /\ OptIdle /\ LibIdle /\ RowsIdle /\ EngIdle /\ IterIdle

\* The state of Query::search before it is called, for the specifications
\* that do not run it.
AbortIdle ==
  /\ abort_flag = FALSE
  /\ search_pc = "call"
  /\ workers = <<>>
  /\ channel = <<>>
  /\ collector = [abort_seen |-> FALSE]
  /\ delivered = <<>>

\* ---------------------------------------------------------- search_lowered
\* `if let Some(end_label) = &node.end_label`
ComeRound_never(node) == FALSE

ComeRound(node) == IsSome(node.end_label)

\* `if length >= data.len_range.end`, with the test made one too lenient.
TooLong_off_by_one(length, len_range) == length > len_range.end

\* `if length >= data.len_range.end { continue; }`
TooLong(length, len_range) == length >= len_range.end

\* The falseness test left out.
IsUnreachable_never(unreachable_nodes, succ_idx) == FALSE

\* `unreachable_nodes.get(succ_idx.index()).unwrap()`
IsUnreachable(unreachable_nodes, succ_idx) == succ_idx \in unreachable_nodes

\* The clone left out: only the successor's own falseness is kept.
NewUnreachable_forgets(unreachable_nodes, falseness) == falseness

\* `new_unreachable_nodes = unreachable_nodes.clone(); .or(&succ_node.falseness)`
NewUnreachable(unreachable_nodes, falseness) == unreachable_nodes \cup falseness

\* The Comp built from a popped prefix that has come round.
CompOf(p, end_label) ==
  [start_idx |-> CompPath_flatten(p.path)[1], links |-> CompPath_flatten(p.path)[2],
   end_label |-> end_label, length |-> p.length, score |-> p.score,
   avg_score |-> p.avg_score]

\* `comps.len() == data.num_comps`
EnoughComps(cs, num_comps) == Len(cs) = num_comps

\* `frontier.len() >= data.queue_limit`
QueueTooLong(heap, queue_limit) == BestFirst_len(heap) >= queue_limit

Init ==
  /\ graph \in Graphs
  /\ data \in Datas
  /\ frontier = BestFirst_default
  /\ comps = <<>>
  /\ pc = IF Len(graph.starts) = 0 THEN "loop" ELSE "starts"
  /\ prefix = None
  /\ i = 1
  /\ last_op = [op |-> "new"]
  /\ stats = [pushed |-> 0, popped |-> 0, removed |-> 0]
  /\ AbortIdle
  /\ LaterIdle

\* One iteration of `for (i, (node_idx, _label)) in graph.starts.iter().enumerate()`.
PushStart ==
  /\ pc = "starts"
  /\ i <= Len(graph.starts)
  /\ LET node_idx == graph.starts[i].node
         node == graph.nodes[node_idx]
     IN  frontier' = BestFirst_push(frontier,
           CompPrefix_new(CompPath_Start(i), node_idx, node.falseness,
                          node.score, node.length))
  /\ i' = i + 1
  /\ pc' = IF i = Len(graph.starts) THEN "loop" ELSE "starts"
  /\ UNCHANGED <<laterVars, graph, data, comps, prefix, clientVars, abortVars>>

\* `while let Some(prefix) = frontier.pop()` when pop returns None.
PopNone ==
  /\ pc = "loop"
  /\ BestFirst_pop(frontier) = {}
  /\ pc' = "done"
  /\ UNCHANGED <<laterVars, graph, data, frontier, comps, prefix, i, clientVars, abortVars>>

\* A popped prefix whose node has an end label: emitted if its length is in
\* the range, and never expanded.
PopEnd ==
  /\ pc = "loop"
  /\ \E r \in BestFirst_pop(frontier) :
       LET p == r.node
           node == graph.nodes[p.node_idx]
       IN  /\ ComeRound(node)
           /\ frontier' = r.heap
           /\ prefix' = Some(p)
           /\ IF Range_contains(data.len_range, p.length)
              THEN /\ comps' = Append(comps, CompOf(p, node.end_label[1]))
                   /\ pc' = IF EnoughComps(comps', data.num_comps)
                            THEN "done" ELSE "loop"
              ELSE /\ comps' = comps
                   /\ pc' = "loop"
  /\ UNCHANGED <<laterVars, graph, data, i, clientVars, abortVars>>

\* A popped prefix that has not come round: the loop over its successors starts.
PopExpand ==
  /\ pc = "loop"
  /\ \E r \in BestFirst_pop(frontier) :
       /\ ~ComeRound(graph.nodes[r.node.node_idx])
       /\ frontier' = r.heap
       /\ prefix' = Some(r.node)
  /\ pc' = "expand"
  /\ i' = 1
  /\ UNCHANGED <<laterVars, graph, data, comps, clientVars, abortVars>>

\* One iteration of `for &(link_idx, succ_idx) in &node.succs`.
ExpandSucc ==
  /\ pc = "expand"
  /\ LET p == prefix[1]
         node == graph.nodes[p.node_idx]
     IN  /\ i <= Len(node.succs)
         /\ LET link_idx == node.succs[i][1]
                succ_idx == node.succs[i][2]
                succ_node == graph.nodes[succ_idx]
                length == p.length + succ_node.length
                score == p.score + succ_node.score
            IN  IF TooLong(length, data.len_range)
                THEN frontier' = frontier
                ELSE IF IsUnreachable(p.unreachable_nodes, succ_idx)
                THEN frontier' = frontier
                ELSE frontier' = BestFirst_push(frontier,
                       CompPrefix_new(CompPath_Cons(p.path, link_idx), succ_idx,
                         NewUnreachable(p.unreachable_nodes, succ_node.falseness),
                         score, length))
  /\ i' = i + 1
  /\ UNCHANGED <<laterVars, graph, data, comps, pc, prefix, clientVars, abortVars>>

\* The end of the loop body, after the last successor: the queue is cut to
\* queue_limit / 2 if it has reached queue_limit.  (iter_count only decides
\* when statistics are printed and is left out.)
TruncateCheck ==
  /\ pc = "expand"
  /\ i > Len(graph.nodes[prefix[1].node_idx].succs)
  /\ IF QueueTooLong(frontier, data.queue_limit)
     THEN frontier' \in BestFirst_truncate(frontier, data.queue_limit \div 2)
     ELSE frontier' = frontier
  /\ pc' = "loop"
  /\ UNCHANGED <<laterVars, graph, data, comps, prefix, i, clientVars, abortVars>>

Next ==
  \/ PushStart
  \/ PopNone
  \/ PopEnd
  \/ PopExpand
  \/ ExpandSucc
  \/ TruncateCheck

Spec == Init /\ [][Next]_vars

\* ------------------------------------------------- reading the search state
\* The node a link of `node_idx` leads to.
LinkTarget(node_idx, link_idx) ==
  LET succs == graph.nodes[node_idx].succs
      k == CHOOSE k \in 1 .. Len(succs) : succs[k][1] = link_idx
  IN  succs[k][2]

RECURSIVE Walk(_, _)
Walk(node_idx, links) ==
  IF links = <<>> THEN <<node_idx>>
  ELSE <<node_idx>> \o Walk(LinkTarget(node_idx, Head(links)), Tail(links))

\* The nodes on a path, the start node first.
PathNodes(start_idx, links) == Walk(graph.starts[start_idx].node, links)

Falseness(node_idx) == graph.nodes[node_idx].falseness

\* The OR of the falseness bitsets of a sequence of nodes.
FalsenessOf(ns) == UNION {Falseness(ns[k]) : k \in 1 .. Len(ns)}

min_length == data.len_range.start
max_length == data.len_range.end - 1

Emitted(p) ==
  \E k \in 1 .. Len(comps) :
    comps[k].start_idx = PathStart(p.path) /\ comps[k].links = PathLinks(p.path)

\* The prefix popped by the running (or last) loop iteration has come round.
PoppedEnd == IsSome(prefix) /\ IsSome(graph.nodes[prefix[1].node_idx].end_label)

\* The child that expanding `p` along its k-th successor pushes.
ChildPath(p, k) == CompPath_Cons(p.path, graph.nodes[p.node_idx].succs[k][1])

InFrontier(path) == \E q \in BagToSet(frontier) : q.path = path

\* ------------------------------------------------------------------ claims
\* C1: in every emitted composition no node lies in the falseness set of a
\* node that precedes it on the path; when every node is false against
\* itself, no node occurs twice in an emitted composition.
C1_NoFalseNodeOnEmittedPath ==
  \A c \in 1 .. Len(comps) :
    LET ns == PathNodes(comps[c].start_idx, comps[c].links)
    IN  /\ \A j, k \in 1 .. Len(ns) : j < k => ns[k] \notin Falseness(ns[j])
        /\ (\A n \in 1 .. Len(graph.nodes) : n \in Falseness(n))
             => \A j, k \in 1 .. Len(ns) : j # k => ns[j] # ns[k]

\* A composition of three nodes was emitted although a successor on its way
\* was false against the prefix and had to be skipped.
C1_Witness ==
  \E c \in 1 .. Len(comps) :
    LET ns == PathNodes(comps[c].start_idx, comps[c].links)
    IN  /\ Len(ns) >= 3
        /\ \E j \in 1 .. Len(ns) - 1 :
             \E s \in 1 .. Len(graph.nodes[ns[j]].succs) :
               graph.nodes[ns[j]].succs[s][2] \in FalsenessOf(SubSeq(ns, 1, j))

\* C2: every emitted composition has min_length <= length <= max_length
\* (max_length the largest length in len_range); a popped end prefix is
\* emitted iff its length is in [min_length, max_length], so at exactly
\* min_length and max_length it is and at min_length - 1 and max_length + 1
\* it is not; a reachable successor is pushed iff new_length <= max_length.
C2_LengthInRangeInclusive ==
  /\ \A c \in 1 .. Len(comps) :
       min_length <= comps[c].length /\ comps[c].length <= max_length
  /\ PoppedEnd =>
       LET p == prefix[1]
       IN  /\ (p.length = min_length /\ min_length <= max_length) => Emitted(p)
           /\ (p.length = max_length /\ min_length <= max_length) => Emitted(p)
           /\ p.length = min_length - 1 => ~Emitted(p)
           /\ p.length = max_length + 1 => ~Emitted(p)
           /\ Emitted(p) <=> (min_length <= p.length /\ p.length <= max_length)
  /\ pc = "expand" =>
       LET p == prefix[1]
           succs == graph.nodes[p.node_idx].succs
       IN  \A k \in 1 .. Len(succs) :
             (k < i /\ succs[k][2] \notin p.unreachable_nodes) =>
               (InFrontier(ChildPath(p, k))
                  <=> p.length + graph.nodes[succs[k][2]].length <= max_length)

\* A composition of exactly max_length rows has been emitted, max_length
\* above min_length, and the end prefix popped last was too long to emit.
C2_Witness ==
  /\ min_length < max_length
  /\ \E c \in 1 .. Len(comps) : comps[c].length = max_length
  /\ PoppedEnd
  /\ prefix[1].length > max_length
  /\ ~Emitted(prefix[1])

\* C3: the unreachable bitset of every prefix in the frontier is the OR of
\* the falseness bitsets of the nodes on its path; the prefix being expanded
\* keeps its bitset, and each child's bitset includes its parent's.
C3_UnreachableIsOrOfFalseness ==
  /\ \A q \in BagToSet(frontier) :
       q.unreachable_nodes = FalsenessOf(PathNodes(PathStart(q.path), PathLinks(q.path)))
  /\ pc = "expand" =>
       LET p == prefix[1]
       IN  /\ p.unreachable_nodes = FalsenessOf(PathNodes(PathStart(p.path), PathLinks(p.path)))
           /\ \A q \in BagToSet(frontier) :
                (Len(PathLinks(q.path)) = Len(PathLinks(p.path)) + 1
                 /\ PathStart(q.path) = PathStart(p.path)
                 /\ SubSeq(PathLinks(q.path), 1, Len(PathLinks(p.path))) = PathLinks(p.path))
                  => p.unreachable_nodes \subseteq q.unreachable_nodes

\* Mid-expansion, a child of the expanded prefix is in the frontier whose
\* bitset holds more than the falseness of its own node.
C3_Witness ==
  /\ pc = "expand"
  /\ i > 1
  /\ \E q \in BagToSet(frontier) :
       /\ q.path = ChildPath(prefix[1], i - 1)
       /\ Falseness(q.node_idx) # q.unreachable_nodes
       /\ prefix[1].unreachable_nodes # q.unreachable_nodes

\* C4: a popped prefix whose node has an end label is never expanded (the
\* pop removes it and pushes nothing, whatever its length), it is emitted
\* exactly when its length is in len_range, and no composition is emitted
\* twice.
C4_EndNeverExpanded ==
  /\ [][(pc = "loop" /\ frontier' # frontier
           /\ IsSome(graph.nodes[prefix'[1].node_idx].end_label))
         => /\ frontier' = frontier (-) BagOf(prefix'[1])
            /\ pc' \in {"loop", "done"}
            /\ IF Range_contains(data.len_range, prefix'[1].length)
               THEN /\ Len(comps') = Len(comps) + 1
                    /\ comps'[Len(comps')].start_idx = PathStart(prefix'[1].path)
                    /\ comps'[Len(comps')].links = PathLinks(prefix'[1].path)
                    /\ SubSeq(comps', 1, Len(comps)) = comps
               ELSE comps' = comps]_vars
  /\ [](\A j, k \in 1 .. Len(comps) :
          (comps[j].start_idx = comps[k].start_idx /\ comps[j].links = comps[k].links)
            => j = k)
  /\ [](pc = "expand" => ~PoppedEnd)

\* An end prefix that has successors in the graph was popped and emitted,
\* and the search goes on.
C4_Witness ==
  /\ PoppedEnd
  /\ graph.nodes[prefix[1].node_idx].succs # <<>>
  /\ Emitted(prefix[1])
  /\ pc = "loop"
  /\ frontier # EmptyBag

\* C5: the search returns at most num_comps compositions, for every
\* num_comps (0 and 1 included); it stops as soon as num_comps have been
\* emitted and otherwise only when the frontier is empty.
C5_AtMostNumComps ==
  /\ Len(comps) <= data.num_comps
  /\ pc = "done" => (Len(comps) = data.num_comps \/ frontier = EmptyBag)

\* C6: once the start prefixes are pushed, the frontier never holds more
\* than queue_limit prefixes (mid-expansion and between iterations alike),
\* and a truncation leaves at most queue_limit / 2 prefixes.  (The first
\* part is stated for queue_limit >= 2, where a truncation leaves a prefix.)
C6_FrontierWithinQueueLimit ==
  /\ []((pc # "starts" /\ data.queue_limit >= 2)
          => BestFirst_len(frontier) <= data.queue_limit)
  /\ [][(pc = "expand" /\ pc' = "loop" /\ QueueTooLong(frontier, data.queue_limit))
         => BestFirst_len(frontier') <= data.queue_limit \div 2]_vars

\* C9 as stated: the avg_scores of the emitted compositions are monotone
\* non-increasing in emission order.  (Stated for num_comps >= 1, where the
\* search stops at num_comps compositions.)
C9_EmissionsMonotone ==
  data.num_comps >= 1 =>
    \A k \in 1 .. Len(comps) - 1 :
      ScoreCmp(comps[k + 1].avg_score, comps[k].avg_score) # "Greater"

\* C9 amended: a composition is emitted at the moment it is popped as a
\* greatest prefix: its avg_score is >= that of every prefix then left in
\* the frontier (and nothing is pushed before the next pop).
C9_EmittedIsBestOfFrontier ==
  (PoppedEnd /\ Range_contains(data.len_range, prefix[1].length)) =>
    /\ comps # <<>>
    /\ comps[Len(comps)].avg_score = prefix[1].avg_score
    /\ comps[Len(comps)].avg_score = Div(comps[Len(comps)].score, comps[Len(comps)].length)
    /\ \A q \in BagToSet(frontier) :
         ScoreCmp(q.avg_score, comps[Len(comps)].avg_score) # "Greater"

\* A composition was emitted with a higher avg_score than the one before it,
\* while prefixes of lower avg_score were still in the frontier.
C9_Witness ==
  /\ PoppedEnd
  /\ Len(comps) >= 2
  /\ comps[Len(comps)].avg_score = prefix[1].avg_score
  /\ ScoreCmp(comps[Len(comps)].avg_score, comps[Len(comps) - 1].avg_score) = "Greater"
  /\ \E q \in BagToSet(frontier) :
       ScoreCmp(q.avg_score, comps[Len(comps)].avg_score) = "Less"

\* --------------------------------------------- BestFirst under any client
\* A client that pushes, pops and truncates in any order.  The nodes are
\* CompPrefixes of every score and length in range, so that different nodes
\* can compare equal.
MaxPushes == 3

\* The lengths of the client's nodes.
ClientLengths == {1, 2}

ClientNodes ==
  {CompPrefix_new(CompPath_Start(1), 1, {}, score, length) :
     score \in -1 .. MaxScore, length \in ClientLengths}

FrontierInit ==
  /\ graph = GraphRepeat(0, 0)
  /\ data = [len_range |-> [start |-> 1, end |-> 1], num_comps |-> 0, queue_limit |-> 0]
  /\ frontier = BestFirst_default
  /\ comps = <<>>
  /\ pc = "client"
  /\ prefix = None
  /\ i = 1
  /\ last_op = [op |-> "new"]
  /\ stats = [pushed |-> 0, popped |-> 0, removed |-> 0]
  /\ AbortIdle
  /\ LaterIdle

ClientPush ==
  /\ stats.pushed < MaxPushes
  /\ \E node \in ClientNodes :
       /\ frontier' = BestFirst_push(frontier, node)
       /\ last_op' = [op |-> "push", before |-> frontier, node |-> node]
  /\ stats' = [stats EXCEPT !.pushed = @ + 1]
  /\ UNCHANGED <<laterVars, searchVars, abortVars>>

ClientPopNone ==
  /\ BestFirst_pop(frontier) = {}
  /\ last_op' = [op |-> "pop", before |-> frontier, result |-> None]
  /\ UNCHANGED <<laterVars, frontier, stats, searchVars, abortVars>>

ClientPopSome ==
  /\ \E r \in BestFirst_pop(frontier) :
       /\ frontier' = r.heap
       /\ last_op' = [op |-> "pop", before |-> frontier, result |-> Some(r.node)]
  /\ stats' = [stats EXCEPT !.popped = @ + 1]
  /\ UNCHANGED <<laterVars, searchVars, abortVars>>

ClientTruncate ==
  /\ \E len \in 0 .. MaxPushes :
       /\ frontier' \in BestFirst_truncate(frontier, len)
       /\ last_op' = [op |-> "truncate", before |-> frontier, len |-> len]
  /\ stats' = [stats EXCEPT
                 !.removed = @ + BestFirst_len(frontier) - BestFirst_len(frontier')]
  /\ UNCHANGED <<laterVars, searchVars, abortVars>>

FrontierNext ==
  \/ ClientPush
  \/ ClientPopNone
  \/ ClientPopSome
  \/ ClientTruncate

SpecFrontier == FrontierInit /\ [][FrontierNext]_vars

Min(a, b) == IF a < b THEN a ELSE b

C8_PopReturnsGreatest ==
  /\ BestFirst_len(frontier) = stats.pushed - stats.popped - stats.removed
  /\ last_op.op = "pop" =>
       /\ last_op.result = None <=> last_op.before = EmptyBag
       /\ last_op.result # None =>
            /\ BagIn(last_op.result[1], last_op.before)
            /\ frontier = last_op.before (-) BagOf(last_op.result[1])
            /\ \A q \in BagToSet(frontier) :
                 ScoreCmp(q.avg_score, last_op.result[1].avg_score) # "Greater"

\* After a truncation that removed nodes, a pop returned a node and left a
\* lower one behind.
C8_Witness ==
  /\ last_op.op = "pop"
  /\ last_op.result # None
  /\ stats.removed > 0
  /\ \E q \in BagToSet(frontier) :
       ScoreCmp(q.avg_score, last_op.result[1].avg_score) = "Less"

\* ------------------------------------------------ Query::search and abort
\* Query::search resets the abort flag and hands over to search::search,
\* which is written from the specification's sections 4.6 and 5: one worker
\* thread per sub-graph, each sending its updates over one bounded channel
\* (a blocking send), polling the abort flag between frontier pops; a
\* collector thread drains the channel into update_fn and sends the final
\* Aborting update.  A worker's search is abstracted to a loop of at most
\* MaxIters pops, each of which may complete a composition.  Progress
\* updates are left out.
MaxIters == 2
ChannelCap == 1

\* Two worker threads (two sub-graphs).
Workers == {1, 2}

\* QueryUpdate::Comp and QueryUpdate::Aborting; AbortAck is the worker's
\* acknowledgement on the channel.
UpdateComp(w) == [kind |-> "Comp", worker |-> w]
UpdateAbortAck(w) == [kind |-> "AbortAck", worker |-> w]
UpdateAborting == [kind |-> "Aborting", worker |-> 0]

\* The search variables of a specification that runs no search.
SearchIdle ==
  /\ graph = GraphRepeat(0, 0)
  /\ data = [len_range |-> [start |-> 1, end |-> 1], num_comps |-> 0, queue_limit |-> 0]
  /\ frontier = BestFirst_default
  /\ comps = <<>>
  /\ pc = "idle"
  /\ prefix = None
  /\ i = 1
  /\ last_op = [op |-> "new"]
  /\ stats = [pushed |-> 0, popped |-> 0, removed |-> 0]

\* The flag may hold anything when Query::search is called.
AbortInit ==
  /\ SearchIdle
  /\ abort_flag \in BOOLEAN
  /\ search_pc = "call"
  /\ workers = [w \in Workers |-> [at |-> "idle", left |-> MaxIters, observed |-> FALSE]]
  /\ channel = <<>>
  /\ collector = [abort_seen |-> FALSE]
  /\ delivered = <<>>
  /\ LaterIdle

\* A mutation of Query::search: it goes on to search::search without the store.
StoreFalse_skipped ==
  /\ search_pc = "call"
  /\ search_pc' = "stored"
  /\ UNCHANGED <<laterVars, abort_flag, workers, channel, collector, delivered, frontier, searchVars, clientVars>>

\* abort_flag.store(false, Ordering::SeqCst)
StoreFalse ==
  /\ search_pc = "call"
  /\ abort_flag' = FALSE
  /\ search_pc' = "stored"
  /\ UNCHANGED <<laterVars, workers, channel, collector, delivered, frontier, searchVars, clientVars>>

\* search::search(...): the worker threads and the collector start.
SpawnWorkers ==
  /\ search_pc = "stored"
  /\ workers' = [w \in Workers |-> [workers[w] EXCEPT !.at = "pop"]]
  /\ search_pc' = "running"
  /\ UNCHANGED <<laterVars, abort_flag, channel, collector, delivered, frontier, searchVars, clientVars>>

\* Whoever holds the flag (the user interface, a signal handler) sets it.
SetAbort ==
  /\ abort_flag' = TRUE
  /\ UNCHANGED <<laterVars, search_pc, workers, channel, collector, delivered, frontier, searchVars, clientVars>>

\* A worker pops: the frontier is exhausted and it exits, or it expands a
\* prefix, which may complete a composition.
WorkerPop(w) ==
  /\ workers[w].at = "pop"
  /\ \/ workers' = [workers EXCEPT ![w].at = "exited"]
     \/ /\ workers[w].left > 0
        /\ \E next \in {"send", "check"} :
             workers' = [workers EXCEPT ![w].at = next, ![w].left = @ - 1]
  /\ UNCHANGED <<laterVars, abort_flag, search_pc, channel, collector, delivered, frontier, searchVars, clientVars>>

\* A worker sends a composition; the send blocks while the channel is full.
\* It then goes on, or exits because it has num_comps compositions.
WorkerSend(w) ==
  /\ workers[w].at = "send"
  /\ Len(channel) < ChannelCap
  /\ channel' = Append(channel, UpdateComp(w))
  /\ \E next \in {"check", "exited"} : workers' = [workers EXCEPT ![w].at = next]
  /\ UNCHANGED <<laterVars, abort_flag, search_pc, collector, delivered, frontier, searchVars, clientVars>>

\* Between two pops a worker polls the flag.
WorkerCheck(w) ==
  /\ workers[w].at = "check"
  /\ workers' = [workers EXCEPT
                   ![w].at = IF abort_flag THEN "ack" ELSE "pop",
                   ![w].observed = abort_flag]
  /\ UNCHANGED <<laterVars, abort_flag, search_pc, channel, collector, delivered, frontier, searchVars, clientVars>>

\* A worker that saw the flag acknowledges the abort and exits.
WorkerAck(w) ==
  /\ workers[w].at = "ack"
  /\ Len(channel) < ChannelCap
  /\ channel' = Append(channel, UpdateAbortAck(w))
  /\ workers' = [workers EXCEPT ![w].at = "exited"]
  /\ UNCHANGED <<laterVars, abort_flag, search_pc, collector, delivered, frontier, searchVars, clientVars>>

\* A collector that hands every acknowledgement on as Aborting at once.
CollectorForward_at_once(del, seen, m) ==
  IF m.kind = "Comp"
  THEN [delivered |-> Append(del, m), abort_seen |-> seen]
  ELSE [delivered |-> Append(del, UpdateAborting), abort_seen |-> FALSE]

\* What the collector does with one update: a composition goes to
\* update_fn, an acknowledgement is noted.
CollectorForward(del, seen, m) ==
  IF m.kind = "Comp"
  THEN [delivered |-> Append(del, m), abort_seen |-> seen]
  ELSE [delivered |-> del, abort_seen |-> TRUE]

CollectorRecv ==
  /\ search_pc = "running"
  /\ channel # <<>>
  /\ LET r == CollectorForward(delivered, collector.abort_seen, Head(channel))
     IN  /\ delivered' = r.delivered
         /\ collector' = [collector EXCEPT !.abort_seen = r.abort_seen]
  /\ channel' = Tail(channel)
  /\ UNCHANGED <<laterVars, abort_flag, search_pc, workers, frontier, searchVars, clientVars>>

\* Every worker has exited and the channel is drained: the collector sends
\* the final Aborting update if the search was aborted, and search returns.
CollectorFinish ==
  /\ search_pc = "running"
  /\ channel = <<>>
  /\ \A w \in Workers : workers[w].at = "exited"
  /\ delivered' = IF collector.abort_seen
                  THEN Append(delivered, UpdateAborting) ELSE delivered
  /\ search_pc' = "returned"
  /\ UNCHANGED <<laterVars, abort_flag, workers, channel, collector, frontier, searchVars, clientVars>>

WorkerStep(w) == WorkerPop(w) \/ WorkerSend(w) \/ WorkerCheck(w) \/ WorkerAck(w)

AbortNext ==
  \/ StoreFalse
  \/ SpawnWorkers
  \/ SetAbort
  \/ \E w \in Workers : WorkerPop(w)
  \/ \E w \in Workers : WorkerSend(w)
  \/ \E w \in Workers : WorkerCheck(w)
  \/ \E w \in Workers : WorkerAck(w)
  \/ CollectorRecv
  \/ CollectorFinish

\* Threads are scheduled by the operating system: each keeps running while
\* it can.  Nothing obliges anyone to set the flag.
SpecAbort ==
  /\ AbortInit
  /\ [][AbortNext]_vars
  /\ WF_vars(StoreFalse)
  /\ WF_vars(SpawnWorkers)
  /\ \A w \in Workers : WF_vars(WorkerStep(w))
  /\ WF_vars(CollectorRecv)
  /\ WF_vars(CollectorFinish)

NoCompAfterAborting ==
  \A j, k \in 1 .. Len(delivered) :
    (j < k /\ delivered[j].kind = "Aborting") => delivered[k].kind # "Comp"

MaxFound == 2

\* graphs.len(): how many sub-graphs split_by_start_node returned.
ThreadCounts == {0, 1, 2}

CliScores == {0, 1}

\* The composition a thread finds as its k-th.
CliComp(t, k, avg_score) == [worker |-> t, k |-> k, avg_score |-> avg_score]

\* A thread before it is spawned.
CliThread == [at |-> "unborn", mine |-> <<>>, local |-> <<>>]

\* A lock that never blocks.
MutexAvailable_always(mutex) == TRUE

\* Mutex::lock blocks until nobody holds the mutex.
MutexAvailable(mutex) == mutex = 0

\* Insertion of c into a vector sorted by avg_score, after every element
\* that does not have to follow it (sort_by_key is stable).
RECURSIVE InsertByKey(_, _)
InsertByKey(sorted, c) ==
  IF sorted = <<>> THEN <<c>>
  ELSE IF c.avg_score < Head(sorted).avg_score
       THEN <<c>> \o sorted
       ELSE <<Head(sorted)>> \o InsertByKey(Tail(sorted), c)

\* comps.sort_by_key(|comp| comp.avg_score)
RECURSIVE SortByKey(_)
SortByKey(v) ==
  IF v = <<>> THEN <<>>
  ELSE InsertByKey(SortByKey(SubSeq(v, 1, Len(v) - 1)), v[Len(v)])

num_threads == Len(cli_threads)

CliInit ==
  /\ SearchIdle
  /\ AbortIdle
  /\ BuildIdle
  /\ OptIdle
  /\ LibIdle
  /\ RowsIdle
  /\ EngIdle
  /\ IterIdle
  /\ cli_main = [at |-> "idle", spawned |-> 0, joined |-> 0]
  /\ \E n \in ThreadCounts : cli_threads = [t \in 1 .. n |-> CliThread]
  /\ cli_mutex = 0
  /\ cli_comps = <<>>
  /\ cli_sorted = None

\* `let queue_limit = QUEUE_LIMIT / num_threads;` panics without sub-graphs.
MainStart ==
  /\ cli_main.at = "idle"
  /\ cli_main' = [cli_main EXCEPT
                    !.at = IF num_threads = 0 THEN "panicked" ELSE "spawning"]
  /\ UNCHANGED <<cli_threads, cli_mutex, cli_comps, cli_sorted,
                 notCliVars>>

\* One step of `graphs.into_iter().map(.. std::thread::spawn ..).collect_vec()`.
MainSpawn ==
  /\ cli_main.at = "spawning"
  /\ cli_threads' = [cli_threads EXCEPT ![cli_main.spawned + 1].at = "searching"]
  /\ cli_main' = [cli_main EXCEPT
                    !.spawned = @ + 1,
                    !.at = IF cli_main.spawned + 1 = num_threads
                           THEN "joining" ELSE "spawning"]
  /\ UNCHANGED <<cli_mutex, cli_comps, cli_sorted,
                 notCliVars>>

\* The search of thread t finds a composition and calls on_find_comp.
ThreadFind(t) ==
  /\ cli_threads[t].at = "searching"
  /\ Len(cli_threads[t].mine) < MaxFound
  /\ \E avg_score \in CliScores :
       cli_threads' = [cli_threads EXCEPT
         ![t].mine = Append(@, CliComp(t, Len(@) + 1, avg_score)),
         ![t].at = "lock"]
  /\ UNCHANGED <<cli_main, cli_mutex, cli_comps, cli_sorted,
                 notCliVars>>

\* `comps.lock().unwrap()`
ThreadLock(t) ==
  /\ cli_threads[t].at = "lock"
  /\ MutexAvailable(cli_mutex)
  /\ cli_mutex' = t
  /\ cli_threads' = [cli_threads EXCEPT ![t].at = "push"]
  /\ UNCHANGED <<cli_main, cli_comps, cli_sorted,
                 notCliVars>>

\* `.push(c)`, first half: the Vec is read.
ThreadPushRead(t) ==
  /\ cli_threads[t].at = "push"
  /\ cli_threads' = [cli_threads EXCEPT ![t].local = cli_comps, ![t].at = "write"]
  /\ UNCHANGED <<cli_main, cli_mutex, cli_comps, cli_sorted,
                 notCliVars>>

\* `.push(c)`, second half: the Vec is written with c at its end.
ThreadPushWrite(t) ==
  /\ cli_threads[t].at = "write"
  /\ cli_comps' = Append(cli_threads[t].local,
                         cli_threads[t].mine[Len(cli_threads[t].mine)])
  /\ cli_threads' = [cli_threads EXCEPT ![t].local = <<>>, ![t].at = "unlock"]
  /\ UNCHANGED <<cli_main, cli_mutex, cli_sorted,
                 notCliVars>>

\* The MutexGuard is dropped at the end of the statement.
ThreadUnlock(t) ==
  /\ cli_threads[t].at = "unlock"
  /\ cli_mutex' = 0
  /\ cli_threads' = [cli_threads EXCEPT ![t].at = "searching"]
  /\ UNCHANGED <<cli_main, cli_comps, cli_sorted,
                 notCliVars>>

\* The search of thread t returns and the thread ends.
ThreadExit(t) ==
  /\ cli_threads[t].at = "searching"
  /\ cli_threads' = [cli_threads EXCEPT ![t].at = "exited"]
  /\ UNCHANGED <<cli_main, cli_mutex, cli_comps, cli_sorted,
                 notCliVars>>

\* One step of `for h in handles { h.join().unwrap(); }`.
MainJoin ==
  /\ cli_main.at = "joining"
  /\ cli_main.joined < num_threads
  /\ cli_threads[cli_main.joined + 1].at = "exited"
  /\ cli_main' = [cli_main EXCEPT !.joined = @ + 1]
  /\ UNCHANGED <<cli_threads, cli_mutex, cli_comps, cli_sorted,
                 notCliVars>>

\* `let mut comps = comps.lock().unwrap().clone(); comps.sort_by_key(..)`
MainSort ==
  /\ cli_main.at = "joining"
  /\ cli_main.joined = num_threads
  /\ MutexAvailable(cli_mutex)
  /\ cli_sorted' = Some(SortByKey(cli_comps))
  /\ cli_main' = [cli_main EXCEPT !.at = "done"]
  /\ UNCHANGED <<cli_threads, cli_mutex, cli_comps,
                 notCliVars>>

CliNext ==
  \/ MainStart
  \/ MainSpawn
  \/ \E t \in DOMAIN cli_threads : ThreadFind(t)
  \/ \E t \in DOMAIN cli_threads : ThreadLock(t)
  \/ \E t \in DOMAIN cli_threads : ThreadPushRead(t)
  \/ \E t \in DOMAIN cli_threads : ThreadPushWrite(t)
  \/ \E t \in DOMAIN cli_threads : ThreadUnlock(t)
  \/ \E t \in DOMAIN cli_threads : ThreadExit(t)
  \/ MainJoin
  \/ MainSort

SpecCli == CliInit /\ [][CliNext]_vars

\* The compositions of thread t in a vector, in the vector's order.
RECURSIVE OfThread(_, _)
OfThread(v, t) ==
  IF v = <<>> THEN <<>>
  ELSE IF Head(v).worker = t THEN <<Head(v)>> \o OfThread(Tail(v), t)
       ELSE OfThread(Tail(v), t)

\* The compositions thread t has handed over: all it found, but for the one
\* whose push is still under way.
HandedOver(t) ==
  LET mine == cli_threads[t].mine
  IN  IF cli_threads[t].at \in {"lock", "push", "write"}
      THEN SubSeq(mine, 1, Len(mine) - 1) ELSE mine

\* C11: under every interleaving the shared list holds every composition a
\* thread has handed over exactly once and nothing else, those of one thread
\* in the order the thread found them; and the sorted copy is made only
\* after every thread has been joined, from the list holding all of them.
C11_EveryCompOnceInOrder ==
  /\ \A t \in DOMAIN cli_threads : OfThread(cli_comps, t) = HandedOver(t)
  /\ \A k \in 1 .. Len(cli_comps) : cli_comps[k].worker \in DOMAIN cli_threads
  /\ IsSome(cli_sorted) =>
       /\ cli_main.joined = num_threads
       /\ \A t \in DOMAIN cli_threads :
            /\ cli_threads[t].at = "exited"
            /\ OfThread(cli_comps, t) = cli_threads[t].mine
       /\ SeqToBag(cli_sorted[1]) = SeqToBag(cli_comps)

\* Two threads found two compositions each, their pushes alternated, and
\* the sort after the joins changed the order.
C11_Witness ==
  /\ IsSome(cli_sorted)
  /\ Len(cli_comps) = 4
  /\ cli_comps[1].worker # cli_comps[2].worker
  /\ cli_comps[2].worker # cli_comps[3].worker
  /\ cli_sorted[1] # cli_comps

\* -------------------------------------------------- Graph::from_layout
\* Graph::from_layout (src/monument/lib/src/graph/mod.rs): build_graph runs
\* Dijkstra's algorithm over the chunk ranges of the layout, build_chunk
\* turns every expanded range into a Chunk, compute_falseness sets the
\* falseness links and drops the self-false chunks, and a last loop adds the
\* predecessor links.  The layout is an input: what RangeFactory::gen_range
\* returns for every chunk id, the start ids, the falseness table and the
\* course-head equivalence map.  Music, labels and method counts play no
\* part in the shape of the graph and are left out.
\* Largest number of parts |G| tried.
MaxParts == 2
\* Largest max_length tried.
MaxBuildLength == 8

\* ChunkId::Standard(StandardChunkId::new(course_head, row_idx, is_start))
StandardChunkId_new(course_head, row_idx, is_start) ==
  [kind |-> "Standard", course_head |-> course_head, row_idx |-> row_idx,
   is_start |-> is_start]

\* ChunkId::ZeroLengthEnd
ZeroLengthEnd ==
  [kind |-> "ZeroLengthEnd", course_head |-> 0, row_idx |-> 0, is_start |-> FALSE]

\* An is_start that is never true.
ChunkId_is_start_never(id) == FALSE

\* ChunkId::is_start
ChunkId_is_start(id) == id.kind = "Standard" /\ id.is_start

\* Course heads.  The part heads form a cyclic group of n = num_parts
\* elements; a course head is class * n + rot: one of two classes and the
\* part rot it lies in, the canonical head of a class being that of part 0.
CourseHead(class, rot, n) == class * n + rot

\* A transposition, as the map ch |-> ch * t on course heads: it may swap
\* the classes and moves k parts on.
Transposition(n, flip, k) ==
  [ch \in 0 .. 2 * n - 1 |->
     CourseHead(((ch \div n) + flip) % 2, ((ch % n) + k) % n, n)]

\* `std_id.course_head.as_ref() * false_ch_transposition`
RowMul(course_head, transposition) == transposition[course_head]

\* ch_equiv_map: every course head to its canonical head and its rotation.
ChEquivMap(n) == [ch \in 0 .. 2 * n - 1 |-> <<(ch \div n) * n, ch % n>>]

\* RowRange { start, len }
RowRange(start, len) == [start |-> start, len |-> len]

\* Link::new
Link_new(id, source_idx, rotation) ==
  [id |-> id, source_idx |-> source_idx, rotation |-> rotation]

\* A ChunkRange as RangeFactory::gen_range returns it: range_end is End(end)
\* (end is Some, no links) or NotEnd(links), links being a sequence of
\* <<link index, id after the link, rotation>>.
ChunkRange(chunk_id, per_part_length, num_parts, end, links) ==
  [chunk_id |-> chunk_id, per_part_length |-> per_part_length,
   total_length |-> per_part_length * num_parts, end |-> end, links |-> links]

\* FalsenessEntry::SelfFalse and FalsenessEntry::FalseCourseHeads(fchs)
SelfFalse == [self_false |-> TRUE, fchs |-> <<>>]
FalseCourseHeads(fchs) == [self_false |-> FALSE, fchs |-> fchs]

\* FrontierItem::new
FrontierItem_new(item, distance) == [item |-> item, distance |-> distance]

\* The chunk ids of the layouts below: two starts (the second in the other
\* class of course heads), two chunks on the same rows in either class, an
\* end and the zero-length end.
IdS0(n) == StandardChunkId_new(CourseHead(0, 0, n), 0, TRUE)
IdS1(n) == StandardChunkId_new(CourseHead(1, 0, n), 0, TRUE)
IdA(n) == StandardChunkId_new(CourseHead(0, 0, n), 1, FALSE)
IdB(n) == StandardChunkId_new(CourseHead(1, 0, n), 1, FALSE)
IdE(n) == StandardChunkId_new(CourseHead(0, 0, n), 2, FALSE)

\* The falseness table of a layout: every row range is false against itself
\* under the identity (it shares its rows with itself); the ranges of A and
\* B share rows across the classes, that of S0 with that of S1.  The variant
\* tv makes the range of E (1) or of S0 (2) self-false, or makes the range
\* of A false against itself one part back (3).
FalsenessTableA(n, la, tv) ==
  LET id == Transposition(n, 0, 0)
      flip == Transposition(n, 1, 0)
      back == Transposition(n, 0, n - 1)
      rS0 == RowRange(0, 1)
      rS1 == RowRange(0, 4)
      rA == RowRange(1, la)
      rB == RowRange(1, 1)
      rE == RowRange(2, 1)
      entry(r) ==
        IF r = rE THEN IF tv = 1 THEN SelfFalse
                       ELSE FalseCourseHeads(<< <<rE, id>> >>)
        ELSE IF r = rS0 THEN IF tv = 2 THEN SelfFalse
                             ELSE FalseCourseHeads(<< <<rS0, id>>, <<rS1, flip>> >>)
        ELSE IF r = rS1 THEN FalseCourseHeads(<< <<rS1, id>>, <<rS0, flip>> >>)
        ELSE IF r = rA
             THEN FalseCourseHeads(
                    << <<rB, flip>>, <<rA, id>> >>
                    \o (IF rA # rB THEN << <<rA, flip>> >> ELSE << >>)
                    \o (IF tv = 3 /\ n > 1 THEN << <<rA, back>> >> ELSE << >>))
        ELSE FalseCourseHeads(<< <<rA, flip>>, <<rB, id>> >>)
  IN  [r \in {rS0, rS1, rA, rB, rE} |-> entry(r)]

\* A layout of n parts: r is the rotation of the links into A and E, la the
\* per-part length of A, tv the variant of the falseness table.
LayoutA(n, r, la, tv) ==
  [num_parts |-> n,
   start_ids |-> << <<IdS0(n), 0, 0>>, <<IdS1(n), 1, r>> >>,
   ranges |->
     (IdS0(n) :> ChunkRange(IdS0(n), 1, n, None,
                   << <<0, IdA(n), r>>, <<1, IdB(n), 0>>, <<2, IdA(n), 0>> >>))
     @@ (IdS1(n) :> ChunkRange(IdS1(n), 4, n, None, << <<0, IdA(n), 0>> >>))
     @@ (IdA(n) :> ChunkRange(IdA(n), la, n, None,
                     << <<3, IdE(n), (n - 1) % n>>, <<4, ZeroLengthEnd, 0>> >>))
     @@ (IdB(n) :> ChunkRange(IdB(n), 1, n, None,
                     << <<3, IdE(n), r>>, <<5, IdA(n), r>>, <<1, IdB(n), 0>> >>))
     @@ (IdE(n) :> ChunkRange(IdE(n), 1, n, Some("e"), << >>))
     @@ (ZeroLengthEnd :> ChunkRange(ZeroLengthEnd, 0, n, Some("z"), << >>)),
   falseness_table |-> FalsenessTableA(n, la, tv),
   ch_equiv_map |-> ChEquivMap(n)]

Layouts ==
  {LayoutA(n, r, la, tv) :
     n \in 1 .. MaxParts, r \in 0 .. MaxParts - 1, la \in {1, 2}, tv \in 0 .. 3}

\* from_layout's arguments.  A link's rotation is below num_parts.
BuildArgs ==
  {a \in [layout : Layouts, max_length : 0 .. MaxBuildLength, allow_false : BOOLEAN] :
     \A id \in DOMAIN a.layout.ranges :
       \A k \in 1 .. Len(a.layout.ranges[id].links) :
         a.layout.ranges[id].links[k][3] < a.layout.num_parts}

\* build_chunk
build_chunk(chunk_range, distance) ==
  [per_part_length |-> chunk_range.per_part_length,
   total_length |-> chunk_range.total_length,
   is_start |-> ChunkId_is_start(chunk_range.chunk_id),
   end |-> chunk_range.end,
   required |-> FALSE,
   lb_distance_from_rounds |-> distance,
   lb_distance_to_rounds |-> 0,
   successors |-> [k \in 1 .. Len(chunk_range.links) |->
                    Link_new(chunk_range.links[k][2], chunk_range.links[k][1],
                             chunk_range.links[k][3])],
   false_chunks |-> << >>,
   predecessors |-> << >>]

\* Chunk::length
Chunk_length(chunk) == chunk.total_length

\* Chunk::min_comp_length
min_comp_length(chunk) ==
  chunk.lb_distance_from_rounds + Chunk_length(chunk) + chunk.lb_distance_to_rounds

\* The test for a chunk false against itself in another part, with the
\* rotation left out of it.
FalseInOtherPart_never(false_id, std_id, rotation) == FALSE

\* `&false_id == std_id && *rotation != 0`
FalseInOtherPart(false_id, std_id, rotation) == false_id = std_id /\ rotation # 0

\* A falseness loop that finds no false chunk in the graph.
FalseChunkThere_never(false_id_and_len, chunk_ids_and_lengths) == FALSE

\* `chunk_ids_and_lengths.contains(&false_id_and_len)`
FalseChunkThere(false_id_and_len, chunk_ids_and_lengths) ==
  false_id_and_len \in chunk_ids_and_lengths

\* The loops of set_falseness_links over fchs and over is_start in
\* [true, false]: todo is what is left of the fchs, starts what is left of
\* [true, false] for the first of them.
RECURSIVE FalsenessLoop(_, _, _, _, _, _)
FalsenessLoop(std_id, todo, starts, false_chunks, ch_equiv_map, chunk_ids_and_lengths) ==
  IF todo = << >> THEN [truth |-> TRUE, false_chunks |-> false_chunks]
  ELSE
    LET false_range == Head(todo)[1]
        false_ch == RowMul(std_id.course_head, Head(todo)[2])
    IN  IF false_ch \notin DOMAIN ch_equiv_map \/ starts = << >>
        THEN FalsenessLoop(std_id, Tail(todo), <<TRUE, FALSE>>, false_chunks,
                           ch_equiv_map, chunk_ids_and_lengths)
        ELSE
          LET false_equiv_ch == ch_equiv_map[false_ch][1]
              rotation == ch_equiv_map[false_ch][2]
              false_id == StandardChunkId_new(false_equiv_ch, false_range.start,
                                              Head(starts))
              false_id_and_len == <<false_id, false_range.len>>
          IN  IF FalseInOtherPart(false_id, std_id, rotation)
              THEN [truth |-> FALSE, false_chunks |-> false_chunks]
              ELSE FalsenessLoop(std_id, todo, Tail(starts),
                     IF FalseChunkThere(false_id_and_len, chunk_ids_and_lengths)
                     THEN Append(false_chunks, false_id) ELSE false_chunks,
                     ch_equiv_map, chunk_ids_and_lengths)

\* set_falseness_links: the Truth it returns and the chunk as it leaves it.
set_falseness_links(id, chunk, falseness_table, ch_equiv_map, chunk_ids_and_lengths) ==
  IF id.kind = "ZeroLengthEnd" THEN [truth |-> TRUE, chunk |-> chunk]
  ELSE
    LET entry == falseness_table[RowRange(id.row_idx, chunk.per_part_length)]
    IN  IF entry.self_false THEN [truth |-> FALSE, chunk |-> chunk]
        ELSE LET r == FalsenessLoop(id, entry.fchs, <<TRUE, FALSE>>, << >>,
                                    ch_equiv_map, chunk_ids_and_lengths)
             IN  [truth |-> r.truth,
                  chunk |-> [chunk EXCEPT !.false_chunks = r.false_chunks]]

\* compute_falseness: chunks.retain(|id, chunk| set_falseness_links(..).is_true())
compute_falseness(cs, layout) ==
  LET chunk_ids_and_lengths == {<<id, cs[id].per_part_length>> : id \in DOMAIN cs}
      res(id) == set_falseness_links(id, cs[id], layout.falseness_table,
                                     layout.ch_equiv_map, chunk_ids_and_lengths)
  IN  [id \in {x \in DOMAIN cs : res(x).truth} |-> res(id).chunk]

\* `rotation: num_parts - succ_link.rotation`
ReverseRotation(num_parts, rotation) == num_parts - rotation

\* A predecessor loop that records the link on its own source.
PredecessorTarget_source(id, succ_link) == id

\* `chunks.get_mut(&succ_link.id)`: the chunk that gets the predecessor.
PredecessorTarget(id, succ_link) == succ_link.id

\* The inner loop of the predecessor pass: `for succ_link in
\* chunk.successors.clone()`, for the chunk `id`.
RECURSIVE PushPredecessors(_, _, _, _)
PushPredecessors(cs, id, succs, num_parts) ==
  IF succs = << >> THEN cs
  ELSE
    LET succ_link == Head(succs)
        target == PredecessorTarget(id, succ_link)
    IN  PushPredecessors(
          IF target \in DOMAIN cs
          THEN [cs EXCEPT ![target].predecessors =
                  Append(@, Link_new(id, succ_link.source_idx,
                                     ReverseRotation(num_parts, succ_link.rotation)))]
          ELSE cs,
          id, Tail(succs), num_parts)

\* A length test one row too lenient.
TooFar_off_by_one(new_dist, limit) == new_dist > limit + 1

\* `if new_dist > max_length { continue; }`
TooFar(new_dist, limit) == new_dist > limit

\* A pop that returns any item of the heap.
MinItems_any(heap) == BagToSet(heap)

\* The items BinaryHeap<Reverse<FrontierItem>>::pop can return: those of the
\* smallest distance.
MinItems(heap) ==
  {x \in BagToSet(heap) : \A y \in BagToSet(heap) : x.distance <= y.distance}

\* from_layout is called: build_graph has put the start ids on its frontier,
\* each with distance 0.
BuildInit ==
  /\ SearchIdle
  /\ AbortIdle
  /\ CliIdle
  /\ OptIdle
  /\ LibIdle
  /\ RowsIdle
  /\ EngIdle
  /\ IterIdle
  /\ build_args \in BuildArgs
  /\ build_pc = "dijkstra"
  /\ build_frontier =
       SeqToBag([k \in 1 .. Len(build_args.layout.start_ids) |->
                   FrontierItem_new(build_args.layout.start_ids[k][1], 0)])
  /\ expanded_chunks = << >>
  /\ end_chunks = << >>
  /\ chunks = << >>
  /\ pred_todo = {}
  /\ build_log = EmptyBag
  /\ split_graphs = << >>

\* A pop of build_graph's frontier, with what the loop body did with it.
Popped(x, outcome) == [id |-> x.item, distance |-> x.distance, outcome |-> outcome]

\* One iteration of build_graph's `while let Some(..) = frontier.pop()`.
BuildGraphPop ==
  /\ build_pc = "dijkstra"
  /\ \E x \in MinItems(build_frontier) :
       LET chunk_id == x.item
           distance == x.distance
           rest == build_frontier (-) BagOf(x)
           chunk_range == build_args.layout.ranges[chunk_id]
           new_dist == distance + chunk_range.total_length
       IN  IF chunk_id \in DOMAIN expanded_chunks
           THEN /\ build_frontier' = rest
                /\ build_log' = build_log (+) BagOf(Popped(x, "expanded before"))
                /\ UNCHANGED <<expanded_chunks, end_chunks>>
           ELSE IF TooFar(new_dist, build_args.max_length)
           THEN /\ build_frontier' = rest
                /\ build_log' = build_log (+) BagOf(Popped(x, "too long"))
                /\ UNCHANGED <<expanded_chunks, end_chunks>>
           ELSE /\ build_log' = build_log (+) BagOf(Popped(x, "expanded"))
                /\ IF IsSome(chunk_range.end)
                   THEN /\ end_chunks' = Append(end_chunks, <<chunk_id, chunk_range.end[1]>>)
                        /\ build_frontier' = rest
                   ELSE /\ end_chunks' = end_chunks
                        /\ build_frontier' = rest (+)
                             SeqToBag([k \in 1 .. Len(chunk_range.links) |->
                                FrontierItem_new(chunk_range.links[k][2], new_dist)])
                /\ expanded_chunks' =
                     (chunk_id :> [range |-> chunk_range, distance |-> distance])
                       @@ expanded_chunks
  /\ UNCHANGED <<build_args, build_pc, chunks, pred_todo, split_graphs,
                 notBuildVars>>

\* The frontier is empty: build_graph returns, every expanded range becomes
\* a Chunk and, unless allow_false, compute_falseness runs.
BuildChunks ==
  /\ build_pc = "dijkstra"
  /\ build_frontier = EmptyBag
  /\ LET built == [id \in DOMAIN expanded_chunks |->
                     build_chunk(expanded_chunks[id].range, expanded_chunks[id].distance)]
     IN  chunks' = IF build_args.allow_false THEN built
                   ELSE compute_falseness(built, build_args.layout)
  /\ pred_todo' = DOMAIN expanded_chunks
  /\ build_pc' = "predecessors"
  /\ UNCHANGED <<build_args, build_frontier, expanded_chunks, end_chunks,
                 build_log, split_graphs, notBuildVars>>

\* One iteration of `for (id, _dist) in expanded_chunk_ranges`; a HashMap is
\* iterated in any order.
AddPredecessors ==
  /\ build_pc = "predecessors"
  /\ \E id \in pred_todo :
       /\ chunks' = IF id \in DOMAIN chunks
                    THEN PushPredecessors(chunks, id, chunks[id].successors,
                                          build_args.layout.num_parts)
                    ELSE chunks
       /\ pred_todo' = pred_todo \ {id}
  /\ UNCHANGED <<build_args, build_pc, build_frontier, expanded_chunks, end_chunks,
                 build_log, split_graphs, notBuildVars>>

\* from_layout returns Self { chunks, start_chunks, end_chunks, num_parts }.
BuildReturn ==
  /\ build_pc = "predecessors"
  /\ pred_todo = {}
  /\ build_pc' = "done"
  /\ UNCHANGED <<build_args, build_frontier, expanded_chunks, end_chunks, chunks,
                 pred_todo, build_log, split_graphs, notBuildVars>>

\* The fields of the Graph returned.
start_chunks == build_args.layout.start_ids
num_parts == build_args.layout.num_parts

\* The Graph from_layout returned.
BuiltGraph ==
  [chunks |-> chunks, start_chunks |-> start_chunks,
   end_chunks |-> end_chunks, num_parts |-> num_parts]

\* A split that hands every copy the first start.
split_by_start_chunk_first(g) ==
  [k \in 1 .. Len(g.start_chunks) |->
     [g EXCEPT !.start_chunks = <<g.start_chunks[1]>>]]

\* Graph::split_by_start_chunk (and Graph::split_by_start_node): one clone
\* of the graph per start, with `start_chunks = vec![start_id]`.
split_by_start_chunk(g) ==
  [k \in 1 .. Len(g.start_chunks) |->
     [g EXCEPT !.start_chunks = <<g.start_chunks[k]>>]]

\* The graph from_layout returned is split by start chunk.
SplitByStartChunk ==
  /\ build_pc = "done"
  /\ split_graphs' = split_by_start_chunk(BuiltGraph)
  /\ build_pc' = "split"
  /\ UNCHANGED <<build_args, build_frontier, expanded_chunks, end_chunks, chunks,
                 pred_todo, build_log, notBuildVars>>

BuildNext ==
  \/ BuildGraphPop
  \/ BuildChunks
  \/ AddPredecessors
  \/ BuildReturn
  \/ SplitByStartChunk

SpecBuild == BuildInit /\ [][BuildNext]_vars

\* ---------------------------------------- reading the graph from_layout made
\* from_layout has returned.
Built == build_pc = "done"

\* The links of a vector that lead to (or come from) `id` over the layout
\* link `source_idx`, as positions in the vector.
LinksTo(links, id, source_idx) ==
  {k \in 1 .. Len(links) : links[k].id = id /\ links[k].source_idx = source_idx}

\* Two rotations that undo each other in the part-head group.
Inverse(r, q) == (r + q) % num_parts = 0

\* How many successor links of the graph lead to the chunk t.
RECURSIVE LinksInto(_, _)
LinksInto(sources, t) ==
  IF sources = {} THEN 0
  ELSE LET c == CHOOSE c \in sources : TRUE
       IN  Cardinality({k \in 1 .. Len(chunks[c].successors) :
                          chunks[c].successors[k].id = t})
           + LinksInto(sources \ {c}, t)

\* C12: in the graph from_layout returns, every successor link (index i,
\* rotation r) of a chunk c to a chunk t of the graph has an entry in t's
\* predecessors with source c, index i and a rotation that is the inverse
\* of r modulo |G| (it adds up with r to a multiple of |G|; the value
\* stored is C13's matter); every predecessor entry comes from such a
\* link of a chunk of the graph; and a chunk has as many predecessor
\* entries as successor links lead to it, so none is recorded twice and
\* none for a link whose target is not in the graph.
C12_PredecessorsMirrorSuccessors ==
  Built =>
    /\ \A c \in DOMAIN chunks : \A k \in 1 .. Len(chunks[c].successors) :
         LET l == chunks[c].successors[k]
         IN  l.id \in DOMAIN chunks =>
               \E j \in LinksTo(chunks[l.id].predecessors, c, l.source_idx) :
                 Inverse(l.rotation, chunks[l.id].predecessors[j].rotation)
    /\ \A t \in DOMAIN chunks : \A j \in 1 .. Len(chunks[t].predecessors) :
         LET p == chunks[t].predecessors[j]
         IN  /\ p.id \in DOMAIN chunks
             /\ \E k \in LinksTo(chunks[p.id].successors, t, p.source_idx) :
                  Inverse(chunks[p.id].successors[k].rotation, p.rotation)
    /\ \A t \in DOMAIN chunks :
         Len(chunks[t].predecessors) = LinksInto(DOMAIN chunks, t)

\* A two-part graph in which one chunk has predecessors from two chunks,
\* one of them over a link of rotation 1, and another chunk keeps a
\* successor link to a chunk that is not in the graph.
C12_Witness ==
  /\ Built
  /\ num_parts = 2
  /\ \E t \in DOMAIN chunks :
       \E j, k \in 1 .. Len(chunks[t].predecessors) :
         /\ chunks[t].predecessors[j].id # chunks[t].predecessors[k].id
         /\ chunks[t].predecessors[j].rotation = 1
  /\ \E c \in DOMAIN chunks : \E k \in 1 .. Len(chunks[c].successors) :
       chunks[c].successors[k].id \notin DOMAIN chunks

\* C13: the predecessor entry of a forward link of rotation r has rotation
\* exactly (-r) mod |G|, so every rotation stored in the graph, forward or
\* reverse, lies in 0 .. |G| - 1, and a forward rotation of 0 has the
\* reverse rotation 0.
C13_ReverseRotationInRange ==
  Built =>
    \A t \in DOMAIN chunks :
      /\ \A k \in 1 .. Len(chunks[t].successors) :
           chunks[t].successors[k].rotation \in 0 .. num_parts - 1
      /\ \A j \in 1 .. Len(chunks[t].predecessors) :
           LET p == chunks[t].predecessors[j]
           IN  /\ p.rotation \in 0 .. num_parts - 1
               /\ \E k \in LinksTo(chunks[p.id].successors, t, p.source_idx) :
                    p.rotation = (num_parts - chunks[p.id].successors[k].rotation)
                                   % num_parts

\* The <<chunk id, distance>> pairs of the layout: the lengths, up to cap,
\* of the ways from a start to the first row of a chunk.
RECURSIVE Ways(_, _, _)
Ways(layout, cap, found) ==
  LET step == {w \in UNION {
                 {<<layout.ranges[v[1]].links[k][2],
                    v[2] + layout.ranges[v[1]].total_length>> :
                    k \in 1 .. Len(layout.ranges[v[1]].links)} : v \in found} :
               w[2] <= cap}
  IN  IF step \subseteq found THEN found ELSE Ways(layout, cap, found \cup step)

\* The length of the shortest way from a start to the first row of every
\* chunk of the layout; a chunk with no way of at most cap rows gets cap + 1.
ShortestDistance(layout) ==
  LET cap == build_args.max_length + 1
      ways == Ways(layout, cap,
                   {<<layout.start_ids[k][1], 0>> : k \in 1 .. Len(layout.start_ids)})
  IN  [id \in DOMAIN layout.ranges |->
         LET ds == {w[2] : w \in {v \in ways : v[1] = id}}
         IN  IF ds = {} THEN cap + 1
             ELSE CHOOSE d \in ds : \A e \in ds : d <= e]

\* C14: every chunk of the graph has lb_distance_from_rounds + length +
\* lb_distance_to_rounds <= max_length, with lb_distance_to_rounds = 0; a
\* chunk whose shortest distance from a start plus its own total length
\* exceeds max_length is never inserted, neither into build_graph's map of
\* expanded chunks nor into the graph.
C14_MinCompLengthWithinMax ==
  /\ \A id \in DOMAIN expanded_chunks :
       expanded_chunks[id].distance + expanded_chunks[id].range.total_length
         <= build_args.max_length
  /\ \A id \in DOMAIN chunks :
       /\ min_comp_length(chunks[id]) <= build_args.max_length
       /\ chunks[id].lb_distance_to_rounds = 0
  /\ Built =>
       LET shortest == ShortestDistance(build_args.layout)
       IN  \A id \in DOMAIN build_args.layout.ranges :
             shortest[id] + build_args.layout.ranges[id].total_length
                 > build_args.max_length
               => id \notin DOMAIN chunks /\ id \notin DOMAIN expanded_chunks

\* A chunk of the graph has a shortest composition of exactly max_length
\* rows, and a chunk of the layout that a link of the graph leads to is
\* missing because its own would have max_length + 1.
C14_Witness ==
  /\ Built
  /\ \E id \in DOMAIN chunks :
       /\ chunks[id].lb_distance_from_rounds > 0
       /\ min_comp_length(chunks[id]) = build_args.max_length
  /\ \E id \in DOMAIN build_args.layout.ranges :
       /\ id \notin DOMAIN expanded_chunks
       /\ ShortestDistance(build_args.layout)[id]
            + build_args.layout.ranges[id].total_length = build_args.max_length + 1

\* C15 as stated: every id listed in starts is a key of the chunk map whose
\* chunk has is_start = true, and every id listed in ends is a key of the
\* chunk map whose chunk has end = Some.
C15_StartsAndEndsAreChunks ==
  Built =>
    /\ \A k \in 1 .. Len(start_chunks) :
         /\ start_chunks[k][1] \in DOMAIN chunks
         /\ chunks[start_chunks[k][1]].is_start
    /\ \A k \in 1 .. Len(end_chunks) :
         /\ end_chunks[k][1] \in DOMAIN chunks
         /\ IsSome(chunks[end_chunks[k][1]].end)

\* C15 amended: an id listed in starts that is a key of the chunk map has
\* is_start = true, one listed in ends that is a key has end = Some with
\* the end listed.  A start id stays listed when its chunk was rejected for
\* length or removed by compute_falseness, an end id when its chunk was
\* removed by compute_falseness; these are the only listed ids that are not
\* keys.
C15_ListedChunksAreStartsAndEnds ==
  Built =>
    /\ \A k \in 1 .. Len(start_chunks) :
         LET id == start_chunks[k][1]
         IN  /\ id \in DOMAIN chunks => chunks[id].is_start
             /\ id \notin DOMAIN chunks =>
                  \/ build_args.layout.ranges[id].total_length > build_args.max_length
                  \/ (~build_args.allow_false /\ id \in DOMAIN expanded_chunks)
    /\ \A k \in 1 .. Len(end_chunks) :
         LET id == end_chunks[k][1]
         IN  /\ id \in DOMAIN expanded_chunks
             /\ id \in DOMAIN chunks => chunks[id].end = Some(end_chunks[k][2])
             /\ id \notin DOMAIN chunks => ~build_args.allow_false

\* One start id is a start chunk of the graph while another is no key of the
\* chunk map, and one end id is an end chunk while another is no key.
C15_Witness ==
  /\ Built
  /\ \E j, k \in 1 .. Len(start_chunks) :
       /\ start_chunks[j][1] \in DOMAIN chunks
       /\ chunks[start_chunks[j][1]].is_start
       /\ start_chunks[k][1] \notin DOMAIN chunks
  /\ \E j, k \in 1 .. Len(end_chunks) :
       /\ end_chunks[j][1] \in DOMAIN chunks
       /\ end_chunks[k][1] \notin DOMAIN chunks

\* The falseness table's entry for the rows of a standard chunk.
EntryOf(id) ==
  build_args.layout.falseness_table[
    RowRange(id.row_idx, build_args.layout.ranges[id].per_part_length)]

\* Some false course head of the chunk canonicalises to the chunk's own
\* course head and rows with a rotation other than 0.
FalseAgainstItselfInAnotherPart(id) ==
  \E k \in 1 .. Len(EntryOf(id).fchs) :
    LET false_ch == RowMul(id.course_head, EntryOf(id).fchs[k][2])
        equiv == build_args.layout.ch_equiv_map
    IN  /\ false_ch \in DOMAIN equiv
        /\ equiv[false_ch][1] = id.course_head
        /\ EntryOf(id).fchs[k][1].start = id.row_idx
        /\ equiv[false_ch][2] # 0

\* A chunk of the Dijkstra pass that compute_falseness has to remove.
SelfFalseChunk(id) ==
  /\ id.kind = "Standard"
  /\ (EntryOf(id).self_false \/ FalseAgainstItselfInAnotherPart(id))

\* C16: when falseness is computed (allow_false = false), the graph holds
\* no chunk whose row range is SelfFalse in the falseness table and no
\* standard chunk one of whose false course heads canonicalises to its own
\* id with a non-zero rotation; a ZeroLengthEnd chunk is always kept and
\* has no falseness links.
C16_NoSelfFalseChunk ==
  (build_pc \in {"predecessors", "done"} /\ ~build_args.allow_false) =>
    /\ \A id \in DOMAIN chunks :
         id.kind = "Standard" =>
           /\ ~EntryOf(id).self_false
           /\ ~FalseAgainstItselfInAnotherPart(id)
    /\ ZeroLengthEnd \in DOMAIN expanded_chunks =>
         /\ ZeroLengthEnd \in DOMAIN chunks
         /\ chunks[ZeroLengthEnd].false_chunks = << >>

\* A chunk that is false against itself in the other part was expanded and
\* is not in the graph, which holds the zero-length end.
C16_Witness ==
  /\ Built
  /\ ~build_args.allow_false
  /\ ZeroLengthEnd \in DOMAIN chunks
  /\ \E id \in DOMAIN expanded_chunks :
       /\ id \notin DOMAIN chunks
       /\ ~EntryOf(id).self_false
       /\ FalseAgainstItselfInAnotherPart(id)

\* The ids in a vector of ids.
IdsOf(v) == {v[k] : k \in 1 .. Len(v)}

DefaultLimit == 20
\* How many chunks more than DefaultLimit the largest graph handed in has.
MaxSpare == 2
\* The longest pass pipeline handed in.
MaxPasses == 2
\* How many times optimise is called on the same graph.
MaxCalls == 2

Forward == "Forward"
Backward == "Backward"
Direction == {Forward, Backward}

\* A chunk as the passes and Size see it: its links in both directions.
OptChunk(successors, predecessors) ==
  [successors |-> successors, predecessors |-> predecessors]

\* The graphs handed in: n chunks in a row, each linked to the next, the
\* first a start and the last an end.
ChainGraph(n) ==
  [chunks |-> [id \in 1 .. n |->
                 OptChunk(IF id < n THEN <<id + 1>> ELSE << >>,
                          IF id > 1 THEN <<id - 1>> ELSE << >>)],
   start_chunks |-> <<1>>,
   end_chunks |-> <<n>>]

ChunkCounts == (1 .. 3) \cup (DefaultLimit + 1 .. DefaultLimit + MaxSpare)

\* `g.chunks().map(|(_id, chunk)| chunk.successors.len()).sum()`
RECURSIVE SumSuccessors(_, _)
SumSuccessors(cs, ids) ==
  IF ids = {} THEN 0
  ELSE CHOOSE sum \in {Len(cs[id].successors) + SumSuccessors(cs, ids \ {id}) :
                        id \in {CHOOSE x \in ids : TRUE}} : TRUE

\* `impl From<&Graph> for Size`
Size_from(g) ==
  [num_chunks |-> Cardinality(DOMAIN g.chunks),
   num_links |-> SumSuccessors(g.chunks, DOMAIN g.chunks),
   num_starts |-> Len(g.start_chunks),
   num_ends |-> Len(g.end_chunks)]

\* usize::cmp
usize_cmp(a, b) == IF a < b THEN "Less" ELSE IF a > b THEN "Greater" ELSE "Equal"

\* A comparison under which a size that got larger somewhere is larger.
Size_partial_cmp_any_greater(self, other) ==
  LET all_comparisons == {usize_cmp(self.num_chunks, other.num_chunks),
                          usize_cmp(self.num_links, other.num_links),
                          usize_cmp(self.num_starts, other.num_starts),
                          usize_cmp(self.num_ends, other.num_ends)}
  IN  IF "Greater" \in all_comparisons THEN Some("Greater")
      ELSE IF "Less" \in all_comparisons THEN Some("Less")
      ELSE Some("Equal")

\* `impl PartialOrd for Size`: partial_cmp
Size_partial_cmp(self, other) ==
  LET cmp_chunks == usize_cmp(self.num_chunks, other.num_chunks)
      cmp_links == usize_cmp(self.num_links, other.num_links)
      cmp_starts == usize_cmp(self.num_starts, other.num_starts)
      cmp_ends == usize_cmp(self.num_ends, other.num_ends)
      all_comparisons == {cmp_chunks, cmp_links, cmp_starts, cmp_ends}
      are_any_less == "Less" \in all_comparisons
      are_any_greater == "Greater" \in all_comparisons
  IN  CASE are_any_less /\ ~are_any_greater -> Some("Less")
        [] ~are_any_less /\ are_any_greater -> Some("Greater")
        [] ~are_any_less /\ ~are_any_greater -> Some("Equal")
        [] are_any_less /\ are_any_greater -> None

\* The chunk ids of a graph, smallest and largest.
FirstId(g) == CHOOSE x \in DOMAIN g.chunks : \A y \in DOMAIN g.chunks : x <= y
LastId(g) == CHOOSE x \in DOMAIN g.chunks : \A y \in DOMAIN g.chunks : x >= y

\* Graph::retain_nodes keeping every chunk but the last, if there are two.
RemoveLastChunk(g) ==
  IF Cardinality(DOMAIN g.chunks) > 1
  THEN [g EXCEPT !.chunks = [id \in DOMAIN g.chunks \ {LastId(g)} |-> g.chunks[id]]]
  ELSE g

\* successors_mut().push: the first chunk gets one more link, to itself.
AddLink(g) ==
  [g EXCEPT !.chunks[FirstId(g)].successors = Append(@, FirstId(g))]

\* successors_mut: every link of the first chunk made to point to itself.
RetargetLinks(g) ==
  [g EXCEPT !.chunks[FirstId(g)].successors =
              [k \in 1 .. Len(@) |-> FirstId(g)]]

\* The bodies a Single pass may have (SinglePass = Box<dyn FnMut(&mut Graph)>).
SingleBodies ==
  {"nothing", "remove_last_chunk", "add_link", "chunk_for_link", "retarget_links"}

\* `pass(graph)` for a SinglePass
SingleBody(body, g) ==
  CASE body = "nothing" -> g
    [] body = "remove_last_chunk" -> RemoveLastChunk(g)
    [] body = "add_link" -> AddLink(g)
    [] body = "chunk_for_link" ->
         IF Cardinality(DOMAIN g.chunks) > 1 THEN AddLink(RemoveLastChunk(g)) ELSE g
    [] body = "retarget_links" -> RetargetLinks(g)

\* DirectionalView::new
DirectionalView_new(g, direction) == [graph |-> g, direction |-> direction]

\* DirectionalView::start_nodes and end_nodes
View_start_nodes(view) ==
  IF view.direction = Forward THEN view.graph.start_chunks
  ELSE view.graph.end_chunks
View_end_nodes(view) ==
  IF view.direction = Forward THEN view.graph.end_chunks
  ELSE view.graph.start_chunks

\* NodeView::successors and predecessors
NodeView_successors(node, direction) ==
  IF direction = Forward THEN node.successors ELSE node.predecessors
NodeView_predecessors(node, direction) ==
  IF direction = Forward THEN node.predecessors ELSE node.successors

\* `impl Not for Direction`
Direction_not(direction) == IF direction = Forward THEN Backward ELSE Forward

\* A view that writes the stored successors whatever its direction.
NodeViewMut_successors_mut_stored(node, direction, list) ==
  [node EXCEPT !.successors = list]

\* NodeViewMut::successors_mut and predecessors_mut: the node after list has
\* been written through the reference returned.
NodeViewMut_successors_mut(node, direction, list) ==
  IF direction = Forward THEN [node EXCEPT !.successors = list]
  ELSE [node EXCEPT !.predecessors = list]
NodeViewMut_predecessors_mut(node, direction, list) ==
  IF direction = Forward THEN [node EXCEPT !.predecessors = list]
  ELSE [node EXCEPT !.successors = list]

\* NodeViewMut::successors_mut().clear() on the chunk id of the view
\* (DirectionalView::get_node_mut gives None for an id not in the graph).
ClearViewSuccessors(view, id) ==
  IF id \notin DOMAIN view.graph.chunks THEN view.graph
  ELSE [view.graph EXCEPT !.chunks[id] =
          NodeViewMut_successors_mut(@, view.direction, << >>)]

\* The bodies a directional pass may have
\* (DirectionalPass = Box<dyn FnMut(&mut DirectionalView<'_>)>).
DirectionalBodies == {"cut_after_start", "cut_if_end_linked"}

\* `pass(&mut DirectionalView::new(graph, direction))`: cut_after_start
\* clears the links leaving the view's first start; cut_if_end_linked does
\* so only while the view's first end still has a link arriving.
DirectionalBody(body, view) ==
  LET starts == View_start_nodes(view)
      ends == View_end_nodes(view)
  IN  IF starts = << >> THEN view.graph
      ELSE CASE body = "cut_after_start" -> ClearViewSuccessors(view, starts[1])
             [] body = "cut_if_end_linked" ->
                  IF /\ ends # << >>
                     /\ ends[1] \in DOMAIN view.graph.chunks
                     /\ NodeView_predecessors(view.graph.chunks[ends[1]],
                                              view.direction) # << >>
                  THEN ClearViewSuccessors(view, starts[1])
                  ELSE view.graph

\* `enum Pass`
Pass_Single(body) == [kind |-> "Single", body |-> body]
Pass_OneDirection(body, direction) ==
  [kind |-> "OneDirection", body |-> body, direction |-> direction]
Pass_BothDirections(body) == [kind |-> "BothDirections", body |-> body]
Pass_BothDirectionsRev(body) == [kind |-> "BothDirectionsRev", body |-> body]

Passes ==
  {Pass_Single(b) : b \in SingleBodies}
    \cup {Pass_OneDirection(b, d) : b \in DirectionalBodies, d \in Direction}
    \cup {Pass_BothDirections(b) : b \in DirectionalBodies}
    \cup {Pass_BothDirectionsRev(b) : b \in DirectionalBodies}

\* One call of a pass body, as Pass::run makes it: the graph it was handed
\* and the graph it left.
CallOfSingle(body, g) ==
  [view |-> "Graph", seen |-> g, left |-> SingleBody(body, g)]

\* run_in_direction
run_in_direction(body, g, direction) ==
  [view |-> direction, seen |-> g,
   left |-> DirectionalBody(body, DirectionalView_new(g, direction))]

\* Pass::run with the two directions of BothDirectionsRev in the order of
\* BothDirections.
Pass_run_forward_first(pass, g) ==
  CASE pass.kind = "Single" -> <<CallOfSingle(pass.body, g)>>
    [] pass.kind = "OneDirection" ->
         <<run_in_direction(pass.body, g, pass.direction)>>
    [] pass.kind \in {"BothDirections", "BothDirectionsRev"} ->
         LET first == run_in_direction(pass.body, g, Forward)
         IN  <<first, run_in_direction(pass.body, first.left, Backward)>>

\* Pass::run: the calls of the body it makes, in order.
Pass_run(pass, g) ==
  CASE pass.kind = "Single" -> <<CallOfSingle(pass.body, g)>>
    [] pass.kind = "OneDirection" ->
         <<run_in_direction(pass.body, g, pass.direction)>>
    [] pass.kind = "BothDirections" ->
         LET first == run_in_direction(pass.body, g, Forward)
         IN  <<first, run_in_direction(pass.body, first.left, Backward)>>
    [] pass.kind = "BothDirectionsRev" ->
         LET first == run_in_direction(pass.body, g, Backward)
         IN  <<first, run_in_direction(pass.body, first.left, Forward)>>

\* The graph as the last call of a pass body left it.
GraphAfter(calls) == calls[Len(calls)].left

\* The pipelines and limits optimise_with_iter_limit is called with; optimise
\* itself is the call with limit DefaultLimit.
\* A pipeline is empty, or any pass followed by passes out of LaterPasses.
LaterPasses ==
  {Pass_Single("remove_last_chunk"), Pass_Single("add_link"),
   Pass_BothDirections("cut_after_start")}
Pipelines ==
  {<< >>} \cup
    {<<p>> \o t : p \in Passes,
                  t \in UNION {[1 .. n -> LaterPasses] : n \in 0 .. MaxPasses - 1}}
Limits == {0, 1, DefaultLimit}

\* A loop that stops only when the graph got larger.
StopsOptimising_greater_only(ord) == ord = Some("Greater")

\* `Some(Ordering::Equal | Ordering::Greater) => return,`
\* `Some(Ordering::Less) | None => {}`
StopsOptimising(ord) == ord \in {Some("Equal"), Some("Greater")}

\* A graph, a pipeline and a limit, before optimise is called.
OptInit ==
  /\ SearchIdle
  /\ AbortIdle
  /\ CliIdle
  /\ BuildIdle
  /\ LibIdle
  /\ RowsIdle
  /\ EngIdle
  /\ IterIdle
  /\ opt_pc = "call"
  /\ opt_args \in [passes : Pipelines, limit : Limits]
  /\ opt_graph \in {ChainGraph(n) : n \in ChunkCounts}
  /\ opt_last_size = << >>
  /\ opt_iter = 0
  /\ opt_pass_idx = 0
  /\ opt_log = << >>
  /\ opt_call = 0
  /\ opt_entry = << >>
  /\ opt_sizes = << >>
  /\ opt_stop = ""

\* optimise_with_iter_limit is called, the first time or on the graph an
\* earlier call returned: `let mut last_size = Size::from(&*self);`
OptimiseCall ==
  /\ opt_pc \in {"call", "returned"}
  /\ opt_call < MaxCalls
  /\ opt_call' = opt_call + 1
  /\ opt_entry' = opt_graph
  /\ opt_last_size' = Size_from(opt_graph)
  /\ opt_iter' = 0
  /\ opt_pass_idx' = 0
  /\ opt_sizes' = << >>
  /\ opt_stop' = ""
  /\ opt_pc' = "for"
  /\ UNCHANGED <<opt_args, opt_graph, opt_log, notOptVars>>

\* The range of the loop taken to include its end.
InForRange_inclusive(done, limit) == done <= limit

\* `0..limit` has an element left after `done` of them.
InForRange(done, limit) == done < limit

\* `for _ in 0..limit`: the next iteration begins, or the loop has run out.
ForNext ==
  /\ opt_pc = "for"
  /\ IF InForRange(opt_iter, opt_args.limit)
     THEN /\ opt_iter' = opt_iter + 1
          /\ opt_pass_idx' = 1
          /\ opt_pc' = "passes"
          /\ UNCHANGED opt_stop
     ELSE /\ opt_pc' = "returned"
          /\ opt_stop' = "limit"
          /\ UNCHANGED <<opt_iter, opt_pass_idx>>
  /\ UNCHANGED <<opt_args, opt_graph, opt_last_size, opt_log, opt_call,
                 opt_entry, opt_sizes, notOptVars>>

\* run_passes: `p.run(self, query)` for the next pass of the pipeline.
RunPass ==
  /\ opt_pc = "passes"
  /\ opt_pass_idx <= Len(opt_args.passes)
  /\ LET pass == opt_args.passes[opt_pass_idx]
         calls == Pass_run(pass, opt_graph)
     IN  /\ opt_graph' = GraphAfter(calls)
         /\ opt_log' = [pass |-> pass, entry |-> opt_graph, calls |-> calls]
  /\ opt_pass_idx' = opt_pass_idx + 1
  /\ UNCHANGED <<opt_pc, opt_args, opt_last_size, opt_iter, opt_call,
                 opt_entry, opt_sizes, opt_stop, notOptVars>>

\* After run_passes: `match new_size.partial_cmp(&last_size)`.
Compare ==
  /\ opt_pc = "passes"
  /\ opt_pass_idx > Len(opt_args.passes)
  /\ LET new_size == Size_from(opt_graph)
     IN  /\ opt_sizes' = Append(opt_sizes, new_size)
         /\ IF StopsOptimising(Size_partial_cmp(new_size, opt_last_size))
            THEN /\ opt_pc' = "returned"
                 /\ opt_stop' = "not_smaller"
                 /\ UNCHANGED opt_last_size
            ELSE /\ opt_pc' = "for"
                 /\ opt_last_size' = new_size
                 /\ UNCHANGED opt_stop
  /\ UNCHANGED <<opt_args, opt_graph, opt_iter, opt_pass_idx, opt_log,
                 opt_call, opt_entry, notOptVars>>

OptNext ==
  \/ OptimiseCall
  \/ ForNext
  \/ RunPass
  \/ Compare

SpecOptimise == OptInit /\ [][OptNext]_vars

\* The size of the graph before run j of the running call, and after it.
SizeBefore(j) == IF j = 1 THEN Size_from(opt_entry) ELSE opt_sizes[j - 1]
SizeAfter(j) == opt_sizes[j]

\* Some component of size a is smaller than that of b; some is larger.
SmallerSomewhere(a, b) ==
  \/ a.num_chunks < b.num_chunks
  \/ a.num_links < b.num_links
  \/ a.num_starts < b.num_starts
  \/ a.num_ends < b.num_ends
LargerSomewhere(a, b) == SmallerSomewhere(b, a)
StrictlySmaller(a, b) == SmallerSomewhere(a, b) /\ ~LargerSomewhere(a, b)

\* The running call has returned because of the size run j gave; it went
\* on after run j.
StoppedAfter(j) ==
  /\ j = Len(opt_sizes)
  /\ opt_pc = "returned"
  /\ opt_stop = "not_smaller"
WentOnAfter(j) == j \in 1 .. Len(opt_sizes) /\ ~StoppedAfter(j)

\* C18 as stated: optimise goes on after a run only when the run made the
\* size strictly smaller, and stops after the first run that did not.
C18_ContinuesOnlyWhenStrictlySmaller ==
  \A j \in 1 .. Len(opt_sizes) :
    /\ WentOnAfter(j) => StrictlySmaller(SizeAfter(j), SizeBefore(j))
    /\ StoppedAfter(j) => ~StrictlySmaller(SizeAfter(j), SizeBefore(j))

\* C18: optimise stops after the first run of the pipeline that made no
\* component of the size smaller (the size is equal or larger), and goes on
\* after a run that made some component smaller, be the size strictly
\* smaller or incomparable; it makes at most limit runs, and returns for
\* the limit only after exactly limit runs.
C18_StopsWhenNothingGotSmaller ==
  /\ \A j \in 1 .. Len(opt_sizes) :
       /\ WentOnAfter(j) => SmallerSomewhere(SizeAfter(j), SizeBefore(j))
       /\ StoppedAfter(j) => ~SmallerSomewhere(SizeAfter(j), SizeBefore(j))
  /\ Len(opt_sizes) <= opt_args.limit
  /\ (opt_pc = "returned" /\ opt_stop = "limit") =>
       Len(opt_sizes) = opt_args.limit

\* A call that went on after a run with an incomparable size and later
\* stopped after a run that made nothing smaller.
C18_Witness ==
  /\ opt_pc = "returned"
  /\ opt_stop = "not_smaller"
  /\ \E j \in 1 .. Len(opt_sizes) - 1 :
       /\ SmallerSomewhere(SizeAfter(j), SizeBefore(j))
       /\ LargerSomewhere(SizeAfter(j), SizeBefore(j))
  /\ \E j \in 1 .. Len(opt_sizes) - 1 :
       StrictlySmaller(SizeAfter(j), SizeBefore(j))

\* run_passes as a whole: the graph after every pass of the pipeline.
RECURSIVE run_passes(_, _)
run_passes(passes, g) ==
  IF passes = << >> THEN g
  ELSE run_passes(Tail(passes), GraphAfter(Pass_run(Head(passes), g)))

\* optimise (the limit is DefaultLimit) has returned from a call on a graph
\* that an earlier call returned.
Reoptimised ==
  /\ opt_call >= 2
  /\ opt_pc = "returned"
  /\ opt_args.limit = DefaultLimit

\* C19 as stated: optimising a graph that optimise has returned runs the
\* pipeline exactly once and returns a graph of the same size.
C19_ReoptimiseRunsOnce ==
  Reoptimised =>
    /\ Len(opt_sizes) = 1
    /\ Size_from(opt_graph) = Size_from(opt_entry)

\* C19: when one run of the pipeline leaves the size of the graph that
\* optimise returned as it is, optimising that graph again runs the pipeline
\* exactly once and returns a graph of the same size.
C19_ReoptimiseFixedSizeRunsOnce ==
  (Reoptimised
     /\ Size_from(run_passes(opt_args.passes, opt_entry)) = Size_from(opt_entry))
    => /\ Len(opt_sizes) = 1
       /\ Size_from(opt_graph) = Size_from(opt_entry)

\* A second call of optimise has returned, on a graph the first call made
\* smaller in more than one run and that the pipeline now leaves alone.
C19_Witness ==
  /\ Reoptimised
  /\ opt_call = 2
  /\ opt_entry \notin {ChainGraph(n) : n \in ChunkCounts}
  /\ Cardinality(DOMAIN opt_entry.chunks) = 1
  /\ Size_from(run_passes(opt_args.passes, opt_entry)) = Size_from(opt_entry)
  /\ Len(opt_sizes) = 1

\* What a call of a directional body in direction d on graph g leaves.
LeftBy(body, g, d) == DirectionalBody(body, DirectionalView_new(g, d))

\* C20: Pass::run calls the body of Single once on the whole graph, of
\* OneDirection once in the given direction, of BothDirections twice,
\* Forward then Backward, of BothDirectionsRev twice, Backward then Forward;
\* the first call sees the graph handed to run, the second the graph as the
\* first left it, and the graph after run is the one the last call left.
C20_PassRunOrder ==
  opt_log # << >> =>
    LET pass == opt_log.pass
        calls == opt_log.calls
        views == [k \in 1 .. Len(calls) |-> calls[k].view]
    IN  /\ calls[1].seen = opt_log.entry
        /\ opt_graph = calls[Len(calls)].left
        /\ pass.kind = "Single" =>
             /\ views = <<"Graph">>
             /\ calls[1].left = SingleBody(pass.body, opt_log.entry)
        /\ pass.kind = "OneDirection" =>
             /\ views = <<pass.direction>>
             /\ calls[1].left = LeftBy(pass.body, opt_log.entry, pass.direction)
        /\ pass.kind = "BothDirections" =>
             /\ views = <<Forward, Backward>>
             /\ calls[2].seen = LeftBy(pass.body, opt_log.entry, Forward)
             /\ calls[2].left = LeftBy(pass.body, calls[2].seen, Backward)
        /\ pass.kind = "BothDirectionsRev" =>
             /\ views = <<Backward, Forward>>
             /\ calls[2].seen = LeftBy(pass.body, opt_log.entry, Backward)
             /\ calls[2].left = LeftBy(pass.body, calls[2].seen, Forward)

\* A BothDirectionsRev pass has run whose first call changed the graph and
\* whose second call, seeing that change, left the graph alone.
C20_Witness ==
  /\ opt_log # << >>
  /\ opt_log.pass.kind = "BothDirectionsRev"
  /\ opt_log.calls[2].seen # opt_log.entry
  /\ opt_log.calls[2].left = opt_log.calls[2].seen
  /\ LeftBy(opt_log.pass.body, opt_log.entry, Forward) # opt_log.entry

\* A graph with starts and ends, successors and predecessors exchanged.
SwapNode(node) == OptChunk(node.predecessors, node.successors)
SwapGraph(g) ==
  [chunks |-> [id \in DOMAIN g.chunks |-> SwapNode(g.chunks[id])],
   start_chunks |-> g.end_chunks,
   end_chunks |-> g.start_chunks]

\* The lists written through a view of the node id.
WrittenLists(id) == {<< >>, <<id>>, <<id, id>>}

\* C21: a Backward view of a graph reads and writes as a Forward view of the
\* graph with starts and ends, successors and predecessors exchanged: its
\* start_nodes are the end nodes and its end_nodes the start nodes, a node's
\* successors are its stored predecessors and the other way round, and a
\* write through successors_mut changes the stored predecessors only (so a
\* directional body called Backward leaves starts, ends and every stored
\* successor list alone); a Forward view is the identity, and negating a
\* Direction twice gives the Direction back.
C21_BackwardViewIsSwappedForward ==
  opt_graph # << >> =>
    LET g == opt_graph
        bv == DirectionalView_new(g, Backward)
        fv == DirectionalView_new(g, Forward)
        sv == DirectionalView_new(SwapGraph(g), Forward)
    IN  /\ View_start_nodes(bv) = g.end_chunks
        /\ View_end_nodes(bv) = g.start_chunks
        /\ View_start_nodes(fv) = g.start_chunks
        /\ View_end_nodes(fv) = g.end_chunks
        /\ View_start_nodes(sv) = View_start_nodes(bv)
        /\ View_end_nodes(sv) = View_end_nodes(bv)
        /\ \A d \in Direction :
             Direction_not(d) # d /\ Direction_not(Direction_not(d)) = d
        /\ \A id \in DOMAIN g.chunks :
             LET node == g.chunks[id]
             IN  /\ NodeView_successors(node, Backward) = node.predecessors
                 /\ NodeView_predecessors(node, Backward) = node.successors
                 /\ NodeView_successors(node, Forward) = node.successors
                 /\ NodeView_predecessors(node, Forward) = node.predecessors
                 /\ NodeView_successors(sv.graph.chunks[id], Forward)
                      = NodeView_successors(node, Backward)
                 /\ NodeView_predecessors(sv.graph.chunks[id], Forward)
                      = NodeView_predecessors(node, Backward)
                 /\ \A list \in WrittenLists(id) :
                      /\ NodeViewMut_successors_mut(node, Backward, list)
                           = [node EXCEPT !.predecessors = list]
                      /\ NodeViewMut_predecessors_mut(node, Backward, list)
                           = [node EXCEPT !.successors = list]
                      /\ NodeViewMut_successors_mut(node, Forward, list)
                           = [node EXCEPT !.successors = list]
                      /\ NodeViewMut_predecessors_mut(node, Forward, list)
                           = [node EXCEPT !.predecessors = list]
                      /\ SwapNode(NodeViewMut_successors_mut(node, Backward, list))
                           = NodeViewMut_successors_mut(SwapNode(node), Forward, list)
        /\ opt_log # << >> =>
             \A k \in 1 .. Len(opt_log.calls) :
               LET call == opt_log.calls[k]
               IN  call.view = Backward =>
                     /\ call.left.start_chunks = call.seen.start_chunks
                     /\ call.left.end_chunks = call.seen.end_chunks
                     /\ DOMAIN call.left.chunks = DOMAIN call.seen.chunks
                     /\ \A id \in DOMAIN call.seen.chunks :
                          call.left.chunks[id].successors
                            = call.seen.chunks[id].successors

\* A body called Backward has written through successors_mut: the stored
\* predecessors of the last chunk are gone, its start and end lists differ
\* and some chunk's successors differ from its predecessors.
C21_Witness ==
  /\ opt_log # << >>
  /\ \E k \in 1 .. Len(opt_log.calls) :
       /\ opt_log.calls[k].view = Backward
       /\ opt_log.calls[k].left # opt_log.calls[k].seen
  /\ opt_graph.start_chunks # opt_graph.end_chunks
  /\ \E id \in DOMAIN opt_graph.chunks :
       opt_graph.chunks[id].successors # opt_graph.chunks[id].predecessors

\* split_by_start_chunk has returned.
Split == build_pc = "split"

\* C22: split_by_start_chunk returns one graph per entry of the start list,
\* in the same order; graph i has the start list holding start i only and
\* the chunk map, end list and num_parts of the original, so the start lists
\* of the results, put together, are the original start list; the call
\* leaves the original graph as it was.
C22_SplitByStartKeepsEverythingElse ==
  /\ [](Split =>
          /\ Len(split_graphs) = Len(start_chunks)
          /\ \A k \in 1 .. Len(split_graphs) :
               /\ split_graphs[k].start_chunks = <<start_chunks[k]>>
               /\ split_graphs[k].chunks = chunks
               /\ split_graphs[k].end_chunks = end_chunks
               /\ split_graphs[k].num_parts = num_parts
          /\ [k \in 1 .. Len(split_graphs) |-> split_graphs[k].start_chunks[1]]
               = start_chunks)
  /\ [][(build_pc = "done" /\ build_pc' = "split") =>
          UNCHANGED <<build_args, chunks, end_chunks>>]_vars

\* A graph with two different starts, chunks and an end has been split.
C22_Witness ==
  /\ Split
  /\ Len(split_graphs) = 2
  /\ split_graphs[1].start_chunks # split_graphs[2].start_chunks
  /\ DOMAIN chunks # {}
  /\ end_chunks # << >>

(***************************************************************************)
(* Library functions called on their own: each action draws the arguments  *)
(* of one call and records what the call gives.                            *)
(***************************************************************************)

\* What a call gives: the value returned, or a panic (a failed assertion,
\* an unwrap of None).
Returned(value) == [returned |-> TRUE, value |-> value]
Panicked == [returned |-> FALSE]

\* A call of fn with args.
Call(fn, args) == [fn |-> fn, args |-> args]
Called(fn) == lib_call # << >> /\ lib_call.fn = fn

\* The longest lead num_leads_covered is called with, besides the lead of
\* its tests.
MaxLeadLen == 5
\* `super::num_leads_covered(32, ..)`
TestLeadLen == 32

\* saturating_sub on usize
saturating_sub(a, b) == IF a > b THEN a - b ELSE 0

\* utils::div_rounding_up
div_rounding_up(lhs, rhs) == (lhs + rhs - 1) \div rhs

\* num_leads_covered counting from the lead head whatever the start.
num_leads_covered_from_lead_head(lead_len, start_sub_lead_idx, length) ==
  IF length = 0 THEN Panicked
  ELSE Returned(div_rounding_up(saturating_sub(length, lead_len), lead_len) + 1)

\* num_leads_covered
num_leads_covered(lead_len, start_sub_lead_idx, length) ==
  IF length = 0 THEN Panicked
  ELSE LET dist_to_end_of_first_lead == lead_len - start_sub_lead_idx
           rows_after_end_of_first_lead ==
             saturating_sub(length, dist_to_end_of_first_lead)
       IN  Returned(div_rounding_up(rows_after_end_of_first_lead, lead_len) + 1)

\* The largest stage default_calling_positions is called for.
MaxStage == 12

\* `let named_positions = "LIBFVXSEN";`
named_positions == <<"L", "I", "B", "F", "V", "X", "S", "E", "N">>

\* A PlaceNot: its stage and the (0-indexed) places it makes.
PlaceNot(num_bells, places) == [num_bells |-> num_bells, places |-> places]
PlaceNot_contains(place_not, place) == place \in place_not.places
PlaceNots ==
  {PlaceNot(n, ps) : n \in 1 .. MaxStage, ps \in {{0}, {0, 1}, {0, 3}, {0, 1, 2, 3}}}

\* replace_pos!: `if let Some(v) = positions.get_mut($idx)`, with $idx
\* 0-indexed.
replace_pos(positions, idx, new_val) ==
  IF idx < Len(positions) THEN [positions EXCEPT ![idx + 1] = new_val]
  ELSE positions

\* replace_mwh!: the place $ind from the end of the stage, if it is 4 or more.
replace_mwh(positions, num_bells, ind, new_val) ==
  IF num_bells >= 1 + ind /\ num_bells - (1 + ind) >= 4
  THEN replace_pos(positions, num_bells - (1 + ind), new_val)
  ELSE positions

\* default_calling_positions with M before W on every stage.
default_calling_positions_even_only(place_not) ==
  LET n == place_not.num_bells
      named == [k \in 1 .. n |->
                  IF k <= Len(named_positions) THEN named_positions[k]
                  ELSE ToString(k) \o "ths"]
      seconds == IF PlaceNot_contains(place_not, 1)
                 THEN replace_pos(replace_pos(named, 1, "B"), 2, "T")
                 ELSE named
  IN  replace_mwh(replace_mwh(replace_mwh(seconds, n, 2, "M"), n, 1, "W"), n, 0, "H")

\* default_calling_positions
default_calling_positions(place_not) ==
  LET n == place_not.num_bells
      named == [k \in 1 .. n |->
                  IF k <= Len(named_positions) THEN named_positions[k]
                  ELSE ToString(k) \o "ths"]
      seconds == IF PlaceNot_contains(place_not, 1)
                 THEN replace_pos(replace_pos(named, 1, "B"), 2, "T")
                 ELSE named
  IN  IF n % 2 = 0
      THEN replace_mwh(replace_mwh(replace_mwh(seconds, n, 2, "M"), n, 1, "W"), n, 0, "H")
      ELSE replace_mwh(replace_mwh(replace_mwh(seconds, n, 2, "W"), n, 1, "M"), n, 0, "H")

\* The most methods in a MethodSet.
MaxMethods == 2

\* What MethodBuilder::bellframe_method does with a method: a title found in
\* the library, a title not found, custom place notation that parses or does
\* not, and a title whose library entry has place notation that does not parse.
MethodSources ==
  {"title found", "title not found", "custom pn parses",
   "custom pn parse error", "library pn parse error"}
MethodBuilders == [source : MethodSources, stage : {4, 6}]
MethodSets == UNION {[1 .. n -> MethodBuilders] : n \in 0 .. MaxMethods}

\* Length, with two custom ranges.
Length_Range(start, end) == [preset |-> "Range", start |-> start, end |-> end]
Lengths ==
  {[preset |-> p] : p \in {"Practice", "QuarterPeal", "HalfPeal", "Peal"}}
    \cup {Length_Range(0, 0), Length_Range(24, 96)}

\* crate::Result
Ok(value) == [ok |-> TRUE, value |-> value]
Err(error) == [ok |-> FALSE, error |-> error]

\* MethodBuilder::bellframe_method: Ok, an error, or a panic.
bellframe_method(method_builder) ==
  CASE method_builder.source \in {"title found", "custom pn parses"} ->
         Returned(Ok(method_builder.stage))
    [] method_builder.source = "title not found" ->
         Returned(Err("MethodNotFound"))
    [] method_builder.source = "custom pn parse error" ->
         Returned(Err("MethodPnParse"))
    [] method_builder.source = "library pn parse error" -> Panicked

\* The `for method_builder in method_builders` loop from method idx on: how it
\* ends, with the stage and the number of look-ups made so far.
RECURSIVE ProcessMethods(_, _, _)
ProcessMethods(method_builders, idx, stage) ==
  IF idx > Len(method_builders)
  THEN [returned |-> TRUE, value |-> Ok(stage), lookups |-> idx - 1]
  ELSE LET method == bellframe_method(method_builders[idx])
       IN  IF ~method.returned
           THEN [returned |-> FALSE, lookups |-> idx]
           ELSE IF ~method.value.ok
           THEN [returned |-> TRUE, value |-> method.value, lookups |-> idx]
           ELSE ProcessMethods(method_builders, idx + 1,
                               IF method.value.value > stage
                               THEN method.value.value ELSE stage)

\* The `match length` of with_method_set.
length_range(length) ==
  CASE length.preset = "Practice" -> [start |-> 0, end |-> 300]
    [] length.preset = "QuarterPeal" -> [start |-> 1250, end |-> 1350]
    [] length.preset = "HalfPeal" -> [start |-> 2500, end |-> 2600]
    [] length.preset = "Peal" -> [start |-> 5000, end |-> 5200]
    [] length.preset = "Range" -> [start |-> length.start, end |-> length.end]

\* The rest of with_method_set after the emptiness test: what it returns (or
\* that it panicked), the look-ups it made and whether it loaded the library.
with_method_set_rest(method_builders, length, cc_lib_loads) ==
  IF ~cc_lib_loads
  THEN [returned |-> FALSE, lookups |-> 0, cc_lib_loaded |-> FALSE]
  ELSE LET methods == ProcessMethods(method_builders, 1, 1)
       IN  IF ~methods.returned
           THEN [returned |-> FALSE, lookups |-> methods.lookups,
                 cc_lib_loaded |-> TRUE]
           ELSE IF ~methods.value.ok
           THEN [returned |-> TRUE, value |-> methods.value,
                 lookups |-> methods.lookups, cc_lib_loaded |-> TRUE]
           ELSE [returned |-> TRUE,
                 value |-> Ok([stage |-> methods.value.value,
                               length_range |-> length_range(length),
                               num_comps |-> 100,
                               require_truth |-> TRUE,
                               num_methods |-> Len(method_builders)]),
                 lookups |-> methods.lookups, cc_lib_loaded |-> TRUE]

\* with_method_set without `if method_builders.is_empty()`.
with_method_set_unchecked(method_builders, length, cc_lib_loads) ==
  with_method_set_rest(method_builders, length, cc_lib_loads)

\* QueryBuilder::with_method_set
with_method_set(method_builders, length, cc_lib_loads) ==
  IF method_builders = << >>
  THEN [returned |-> TRUE, value |-> Err("NoMethods"),
        lookups |-> 0, cc_lib_loaded |-> FALSE]
  ELSE with_method_set_rest(method_builders, length, cc_lib_loads)

LibInit ==
  /\ SearchIdle
  /\ AbortIdle
  /\ CliIdle
  /\ BuildIdle
  /\ OptIdle
  /\ LibIdle
  /\ RowsIdle
  /\ EngIdle
  /\ IterIdle

\* num_leads_covered is called for a chunk that starts within a lead or at
\* its end and is up to two leads and a row long.
CallNumLeadsCovered ==
  /\ lib_call = << >>
  /\ \E lead_len \in (1 .. MaxLeadLen) \cup {TestLeadLen} :
       \E start_sub_lead_idx \in 0 .. lead_len :
         \E length \in 0 .. 2 * lead_len + 1 :
           /\ lib_call' = Call("num_leads_covered",
                               <<lead_len, start_sub_lead_idx, length>>)
           /\ lib_result' =
                num_leads_covered(lead_len, start_sub_lead_idx, length)
  /\ UNCHANGED notLibVars

\* default_calling_positions is called for a place notation.
CallDefaultCallingPositions ==
  /\ lib_call = << >>
  /\ \E place_not \in PlaceNots :
       /\ place_not.places \subseteq 0 .. place_not.num_bells - 1
       /\ lib_call' = Call("default_calling_positions", place_not)
       /\ lib_result' = Returned(default_calling_positions(place_not))
  /\ UNCHANGED notLibVars

\* QueryBuilder::with_method_set is called for a method set and a length;
\* the Central Council library loads or does not.
CallWithMethodSet ==
  /\ lib_call = << >>
  /\ \E method_set \in MethodSets, length \in Lengths, cc_lib_loads \in BOOLEAN :
       /\ lib_call' = Call("with_method_set", <<method_set, length, cc_lib_loads>>)
       /\ lib_result' = with_method_set(method_set, length, cc_lib_loads)
  /\ UNCHANGED notLibVars

LibNext ==
  \/ CallNumLeadsCovered
  \/ CallDefaultCallingPositions
  \/ CallWithMethodSet

SpecLib == LibInit /\ [][LibNext]_vars

\* The least q with q * d >= x.
CeilDiv(x, d) == CHOOSE q \in 0 .. x : q * d >= x /\ \A r \in 0 .. q - 1 : r * d < x

\* C24: for lead_len >= 1, 0 <= start_sub_lead_idx < lead_len and
\* length >= 1, num_leads_covered returns
\* 1 + ceil(max(0, length - (lead_len - start_sub_lead_idx)) / lead_len);
\* a length of 0 fails the assertion.
C24_NumLeadsCoveredFormula ==
  Called("num_leads_covered") =>
    LET lead_len == lib_call.args[1]
        start_sub_lead_idx == lib_call.args[2]
        length == lib_call.args[3]
        over == length - (lead_len - start_sub_lead_idx)
    IN  /\ (lead_len >= 1 /\ start_sub_lead_idx < lead_len /\ length >= 1) =>
             /\ lib_result.returned
             /\ lib_result.value
                  = 1 + CeilDiv(IF over > 0 THEN over ELSE 0, lead_len)
        /\ length = 0 => ~lib_result.returned

\* A call for a chunk that starts mid-lead and covers three leads.
C24_Witness ==
  /\ Called("num_leads_covered")
  /\ lib_call.args[2] > 0
  /\ lib_call.args[2] < lib_call.args[1]
  /\ lib_result.returned
  /\ lib_result.value = 3

\* C25 as stated: for every lead length L, num_leads_covered(L, 0, L) = 1,
\* num_leads_covered(L, s, L) = 2 for 0 < s < L, and
\* num_leads_covered(L, 2, L - 2) = 1.
C25_WholeLeadLaws ==
  Called("num_leads_covered") =>
    LET L == lib_call.args[1]
        s == lib_call.args[2]
        length == lib_call.args[3]
    IN  /\ (s = 0 /\ length = L) => lib_result = Returned(1)
        /\ (0 < s /\ s < L /\ length = L) => lib_result = Returned(2)
        /\ (s = 2 /\ length = L - 2) => lib_result = Returned(1)

\* C25: num_leads_covered(L, 0, L) = 1 for every lead length L >= 1,
\* num_leads_covered(L, s, L) = 2 for 0 < s < L, and
\* num_leads_covered(L, 2, L - 2) = 1 for every L >= 3.
C25_WholeLeadLawsOfRealChunks ==
  Called("num_leads_covered") =>
    LET L == lib_call.args[1]
        s == lib_call.args[2]
        length == lib_call.args[3]
    IN  /\ (s = 0 /\ length = L) => lib_result = Returned(1)
        /\ (0 < s /\ s < L /\ length = L) => lib_result = Returned(2)
        /\ (s = 2 /\ length = L - 2 /\ L >= 3) => lib_result = Returned(1)

\* A call for a chunk that starts two rows into a lead and ends at its end.
C25_Witness ==
  /\ Called("num_leads_covered")
  /\ lib_call.args[1] = TestLeadLen
  /\ lib_call.args[2] = 2
  /\ lib_call.args[3] = TestLeadLen - 2
  /\ lib_result = Returned(1)

\* The name the claim gives place k (0-indexed) of a stage of n bells.
NameOfPlace(k, n, makes_seconds) ==
  IF k >= 4 /\ k = n - 1 THEN "H"
  ELSE IF k >= 4 /\ k = n - 2 THEN (IF n % 2 = 0 THEN "W" ELSE "M")
  ELSE IF k >= 4 /\ k = n - 3 THEN (IF n % 2 = 0 THEN "M" ELSE "W")
  ELSE IF makes_seconds /\ k = 1 THEN "B"
  ELSE IF makes_seconds /\ k = 2 THEN "T"
  ELSE IF k < 9 THEN <<"L", "I", "B", "F", "V", "X", "S", "E", "N">>[k + 1]
  ELSE IF k = 9 THEN "10ths"
  ELSE IF k = 10 THEN "11ths"
  ELSE IF k = 11 THEN "12ths"
  ELSE ToString(k + 1) \o "ths"

\* C26: default_calling_positions returns one name per place of the stage:
\* place k is letter k of "LIBFVXSEN", or "<k+1>ths" beyond it; places 1 and
\* 2 are B and T if the notation makes 2nds; then, among the places from 4
\* up, the last is H and the two before it M then W on even stages, W then M
\* on odd ones. So "14" gives LIBFVMWH and "1234" LBTFVMWH on 8 bells, and
\* notations without 2nds give LIBFH on 5 bells and LIBFWMH on 7.
C26_DefaultCallingPositions ==
  Called("default_calling_positions") =>
    LET place_not == lib_call.args
        n == place_not.num_bells
        positions == lib_result.value
    IN  /\ lib_result.returned
        /\ Len(positions) = n
        /\ \A k \in 0 .. n - 1 :
             positions[k + 1] = NameOfPlace(k, n, 1 \in place_not.places)
        /\ place_not = PlaceNot(8, {0, 3}) =>
             positions = <<"L", "I", "B", "F", "V", "M", "W", "H">>
        /\ place_not = PlaceNot(8, {0, 1, 2, 3}) =>
             positions = <<"L", "B", "T", "F", "V", "M", "W", "H">>
        /\ place_not = PlaceNot(5, {0, 3}) =>
             positions = <<"L", "I", "B", "F", "H">>
        /\ place_not = PlaceNot(7, {0, 3}) =>
             positions = <<"L", "I", "B", "F", "W", "M", "H">>

\* A call for a notation that makes 2nds on an odd stage with a numbered
\* place.
C26_Witness ==
  /\ Called("default_calling_positions")
  /\ lib_call.args = PlaceNot(11, {0, 1})
  /\ lib_result.value
       = <<"L", "B", "T", "F", "V", "X", "S", "E", "W", "M", "H">>

\* The length range the Length preset stands for.
PresetRange(length) ==
  IF length.preset = "Practice" THEN <<0, 300>>
  ELSE IF length.preset = "QuarterPeal" THEN <<1250, 1350>>
  ELSE IF length.preset = "HalfPeal" THEN <<2500, 2600>>
  ELSE IF length.preset = "Peal" THEN <<5000, 5200>>
  ELSE <<length.start, length.end>>

\* The call returned a QueryBuilder with the defaults for the length given.
ReturnedBuilder ==
  /\ lib_result.returned
  /\ lib_result.value.ok
  /\ lib_result.value.value.num_comps = 100
  /\ lib_result.value.value.require_truth
  /\ <<lib_result.value.value.length_range.start,
       lib_result.value.value.length_range.end>> = PresetRange(lib_call.args[2])

\* The call returned Err(error), and so no QueryBuilder.
ReturnedErr(error) ==
  /\ lib_result.returned
  /\ ~lib_result.value.ok
  /\ lib_result.value.error = error

\* An empty method set fails with NoMethods before any look-up.
EmptySetFails ==
  (Called("with_method_set") /\ lib_call.args[1] = << >>) =>
    /\ ReturnedErr("NoMethods")
    /\ lib_result.lookups = 0
    /\ ~lib_result.cc_lib_loaded

\* The methods of the call that bellframe_method does not turn into a method.
FailingMethods ==
  {idx \in DOMAIN lib_call.args[1] :
     lib_call.args[1][idx].source \notin {"title found", "custom pn parses"}}

MaxPathLen == 2

\* RowBuf::rounds, on three bells.
rounds == <<1, 2, 3>>

\* `Row * Row`: the bell in each place of rhs, looked up in lhs.
Row_mul(lhs, rhs) == [k \in DOMAIN rhs |-> lhs[rhs[k]]]

\* Row::solve_xa_equals_b: the row x with x * a = b.
solve_xa_equals_b(a, b) ==
  [k \in DOMAIN a |-> b[CHOOSE j \in DOMAIN a : a[j] = k]]

\* Block: its rows, the last of them the leftover row, and an annotation for
\* every row but the leftover one.
Block(rows, annots) == [rows |-> rows, annots |-> annots]
with_leftover_row(leftover) == Block(<<leftover>>, << >>)
Block_len(block) == Len(block.annots)
first_row(block) == block.rows[1]
leftover_row(block) == block.rows[Len(block.rows)]

\* A range with optional bounds, as `a..b`, `a..` and `..b` are.
RangeBounds(start, end) == [start |-> start, end |-> end]

\* utils::clamp_range: the range with its open bounds filled in; it panics
\* on a bound stated outside 0..=len.
clamp_range(range, len) ==
  LET start == IF IsSome(range.start) THEN range.start[1] ELSE 0
      end == IF IsSome(range.end) THEN range.end[1] ELSE len
  IN  IF start > len \/ end > len \/ start > end THEN Panicked
      ELSE Returned([start |-> start, end |-> end])

\* Block::extend_range
extend_range(self, other, range) ==
  LET clamped == clamp_range(range, Block_len(other))
  IN  IF ~clamped.returned THEN Panicked
      ELSE
        LET r == clamped.value
            transposition ==
              solve_xa_equals_b(other.rows[r.start + 1], leftover_row(self))
            popped == SubSeq(self.rows, 1, Len(self.rows) - 1)
        IN  Returned(Block(
              popped \o [k \in 1 .. r.end + 1 - r.start |->
                           Row_mul(transposition, other.rows[r.start + k])],
              self.annots \o SubSeq(other.annots, r.start + 1, r.end)))

\* Block::extend_from_within
extend_from_within(self, range) ==
  LET clamped == clamp_range(range, Block_len(self))
  IN  IF ~clamped.returned THEN Panicked
      ELSE
        LET r == clamped.value
            first_row_of_chunk == self.rows[r.start + 1]
            transposition ==
              solve_xa_equals_b(first_row_of_chunk, leftover_row(self))
        IN  Returned(Block(
              self.rows \o [k \in 1 .. r.end - r.start |->
                              Row_mul(transposition, self.rows[r.start + 1 + k])],
              self.annots \o SubSeq(self.annots, r.start + 1, r.end)))

\* The methods of the query, each the changes of one lead: one of three
\* leads of two rows to the course, one of a single lead of six.
Methods ==
  << [pn |-> << <<2, 1, 3>>, <<1, 3, 2>> >>],
     [pn |-> << <<1, 3, 2>>, <<2, 1, 3>>, <<1, 3, 2>>,
                <<2, 1, 3>>, <<1, 3, 2>>, <<2, 1, 3>> >>] >>
lead_len(method) == Len(Methods[method].pn)

\* The rows of a plain course: the changes of the lead, repeated until a
\* lead ends in rounds.
RECURSIVE plain_course_rows(_, _)
plain_course_rows(pn, rows) ==
  LET change == pn[((Len(rows) - 1) % Len(pn)) + 1]
      new == Append(rows, Row_mul(rows[Len(rows)], change))
  IN  IF (Len(new) - 1) % Len(pn) = 0 /\ new[Len(new)] = rounds THEN new
      ELSE plain_course_rows(pn, new)

\* `m.plain_course().map_annots(|a| (MethodId { index }, a.sub_lead_idx))`
plain_course(method) ==
  LET rows == plain_course_rows(Methods[method].pn, <<rounds>>)
  IN  Block(rows, [k \in 1 .. Len(rows) - 1 |->
                     <<method, (k - 1) % lead_len(method)>>])

\* `query.calls[call_idx].place_notation.transposition()`
calls == << <<2, 1, 3>> >>

\* An assertion of rows() failed, or a range was out of bounds.
Failed(assertion) == [returned |-> FALSE, assertion |-> assertion]

\* The body of `for elem in &self.path`.
rows_elem(block, elem) ==
  IF leftover_row(block) # elem.start_row THEN Failed("start_row")
  ELSE
    LET course == plain_course(elem.method)
        start_idx == elem.start_sub_lead_idx
        end_idx == start_idx + elem.length
        extended ==
          IF end_idx > Block_len(course)
          THEN LET piece == extend_range(block, course,
                                         RangeBounds(Some(start_idx), None))
               IN  IF ~piece.returned THEN piece
                   ELSE extend_range(piece.value, course,
                          RangeBounds(None, Some(end_idx - Block_len(course))))
          ELSE extend_range(block, course,
                            RangeBounds(Some(start_idx), Some(end_idx)))
    IN  IF ~extended.returned THEN Failed("range")
        ELSE IF IsSome(elem.call)
        THEN LET part == extended.value
                 last_non_leftover_row == part.rows[Len(part.rows) - 1]
                 new_leftover_row ==
                   Row_mul(last_non_leftover_row, calls[elem.call[1]])
             IN  Returned([part EXCEPT !.rows[Len(part.rows)] = new_leftover_row])
        ELSE extended

\* `comp.extend_from_within(..part_len)`, n times over.
RECURSIVE extend_parts(_, _, _)
extend_parts(comp, part_len, n) ==
  IF n = 0 THEN comp
  ELSE extend_parts(
         extend_from_within(comp, RangeBounds(None, Some(part_len))).value,
         part_len, n - 1)

\* The loop run once for every part, the first included.
other_parts_one_more(part, n_parts) ==
  extend_parts(part, Block_len(part), n_parts)

\* `for _ in 0..query.num_parts() - 1 { comp.extend_from_within(..part_len) }`
other_parts(part, n_parts) ==
  extend_parts(part, Block_len(part), n_parts - 1)

\* The path elements that may come next: one that starts at the leftover
\* row or at another row, of either method, from the start of a lead, its
\* second row or its last, a row long, a course long or more than two
\* courses long, with or without a call.
PathElems(block) ==
  {[start_row |-> start_row, method |-> method,
    start_sub_lead_idx |-> start_sub_lead_idx, length |-> length, call |-> call] :
     start_row \in {leftover_row(block),
                    Row_mul(leftover_row(block), <<1, 3, 2>>)},
     method \in DOMAIN Methods,
     start_sub_lead_idx \in {0, 1, 5},
     length \in {1, 6, 13},
     call \in {None, Some(1)}}

RowsInit ==
  /\ SearchIdle
  /\ AbortIdle
  /\ CliIdle
  /\ BuildIdle
  /\ OptIdle
  /\ LibIdle
  /\ RowsIdle
  /\ EngIdle
  /\ IterIdle

\* rows() is called: `Block::with_leftover_row(query.start_row.clone())`.
RowsCall ==
  /\ rows_pc = "idle"
  /\ \E start_row \in {rounds, <<2, 3, 1>>}, end_row \in {rounds, <<2, 3, 1>>},
        n_parts \in 1 .. MaxParts :
       /\ rows_query' = [start_row |-> start_row, end_row |-> end_row,
                         num_parts |-> n_parts]
       /\ first_part' = with_leftover_row(start_row)
  /\ rows_self' = [path |-> << >>, length |-> 0]
  /\ rows_pc' = "first part"
  /\ UNCHANGED <<rows_comp, notRowsVars>>

\* One iteration of `for elem in &self.path`, for the element the path has
\* next.
RowsElem ==
  /\ rows_pc = "first part"
  /\ Len(rows_self.path) < MaxPathLen
  /\ \E elem \in PathElems(first_part) :
       /\ elem.start_sub_lead_idx < lead_len(elem.method)
       /\ rows_self' = [rows_self EXCEPT !.path = Append(@, elem)]
       /\ LET result == rows_elem(first_part, elem)
          IN  IF result.returned
              THEN /\ first_part' = result.value
                   /\ UNCHANGED <<rows_pc, rows_comp>>
              ELSE /\ rows_pc' = "panicked"
                   /\ rows_comp' = result
                   /\ UNCHANGED first_part
  /\ UNCHANGED <<rows_query, notRowsVars>>

\* The path has no more elements: the other parts are generated from the
\* first, and the two last assertions made on the rows and on the
\* composition's length, whatever it is.
RowsOtherParts ==
  /\ rows_pc = "first part"
  /\ LET comp == other_parts(first_part, rows_query.num_parts)
     IN  \E length \in {Block_len(comp), Block_len(comp) + 1} :
           /\ rows_self' = [rows_self EXCEPT !.length = length]
           /\ IF Block_len(comp) # length
              THEN /\ rows_pc' = "panicked"
                   /\ rows_comp' = Failed("length")
              ELSE IF leftover_row(comp) # rows_query.end_row
              THEN /\ rows_pc' = "panicked"
                   /\ rows_comp' = Failed("end_row")
              ELSE /\ rows_pc' = "returned"
                   /\ rows_comp' = Returned(comp)
  /\ UNCHANGED <<rows_query, first_part, notRowsVars>>

RowsNext ==
  \/ RowsCall
  \/ RowsElem
  \/ RowsOtherParts

SpecRows == RowsInit /\ [][RowsNext]_vars

\* The sum of the lengths of the elements of a path.
RECURSIVE SumLengths(_)
SumLengths(path) ==
  IF path = << >> THEN 0 ELSE path[1].length + SumLengths(Tail(path))

\* rows() read the whole path: no element failed the first assertion, and
\* none ran out of the plain course.
PathRead ==
  \/ rows_pc = "returned"
  \/ rows_pc = "panicked" /\ rows_comp.assertion \in {"length", "end_row"}

\* The composition's length is num_parts times the lengths of its path's
\* elements.
LengthFieldRight ==
  rows_self.length = rows_query.num_parts * SumLengths(rows_self.path)

\* The Block returned is what the claim says.
ReturnedTheRows ==
  /\ rows_pc = "returned"
  /\ rows_comp.returned
  /\ first_row(rows_comp.value) = rows_query.start_row
  /\ Block_len(rows_comp.value) = rows_self.length
  /\ leftover_row(rows_comp.value) = rows_query.end_row
  /\ Len(rows_comp.value.rows) = Block_len(rows_comp.value) + 1

\* A row multiplied by itself n times.
RECURSIVE Row_pow(_, _)
Row_pow(row, n) == IF n = 0 THEN rounds ELSE Row_mul(row, Row_pow(row, n - 1))

\* The row num_parts repetitions of the first part lead to from start_row.
RowAfterParts ==
  Row_mul(Row_pow(solve_xa_equals_b(rows_query.start_row, leftover_row(first_part)),
                  rows_query.num_parts),
          rows_query.start_row)

SearchRunsInit ==
  /\ Init
  /\ graph \in {GraphEmpty} \cup
       UNION {{GraphDiamond(a, a), GraphCycle(a, a), GraphRepeat(a, a),
               GraphStarts(a, a), GraphFan(a, a), GraphCross(a, a)} :
              a \in ScoreRange}

SpecSearchRuns == SearchRunsInit /\ [][Next]_vars /\ WF_vars(Next)

\* Every prefix in the frontier is shorter than the length bound.
FrontierBelowBound ==
  \A p \in BagToSet(frontier) : p.length < data.len_range.end

\* Every prefix in the frontier that an expansion pushed is shorter than
\* the length bound.
ExpansionsBelowBound ==
  \A p \in BagToSet(frontier) :
    PathLinks(p.path) # << >> => p.length < data.len_range.end

\* C28 as stated: every path in the frontier has total length below the
\* bound, and search_lowered terminates.
C28_TerminatesWithFrontierBelowBound ==
  [](FrontierBelowBound) /\ <>(pc = "done")

\* C28: on the graphs tried, all of nodes of positive length, every path an
\* expansion pushes has total length below the bound (a start is pushed
\* whatever its length), and search_lowered terminates.
C28_TerminatesWithExpansionsBelowBound ==
  [](ExpansionsBelowBound) /\ <>(pc = "done")

\* The search ended by reaching num_comps with prefixes left in the
\* frontier, one of them a start as long as the bound or longer.
C28_Witness ==
  /\ pc = "done"
  /\ data.num_comps > 0
  /\ Len(comps) = data.num_comps
  /\ \E p \in BagToSet(frontier) :
       PathLinks(p.path) = << >> /\ p.length >= data.len_range.end

\* A call of optimise, once made, keeps running: whatever step its loop can
\* take next, it takes. Whether optimise is called again is up to the caller.
SpecOptimiseRuns == SpecOptimise /\ WF_vars(ForNext \/ RunPass \/ Compare)

\* The runs of the pipeline the running call has begun, and has completed.
RunsBegun == opt_iter
RunsCompleted == Len(opt_sizes)

\* C29: every call of optimise_with_iter_limit returns (optimise is always
\* either not yet called, or returned, again later); it runs the pipeline
\* at most limit times (at most 20 times for optimise), not at all when
\* limit = 0, and at least once before it returns when limit >= 1.
C29_OptimiseReturnsWithinLimit ==
  /\ [](RunsBegun <= opt_args.limit /\ RunsCompleted <= RunsBegun)
  /\ [](opt_args.limit = DefaultLimit => RunsBegun <= 20)
  /\ [](opt_args.limit = 0 => RunsBegun = 0)
  /\ []((opt_pc = "returned" /\ opt_args.limit >= 1) => RunsCompleted >= 1)
  /\ []<>(opt_pc \in {"call", "returned"})

\* A call of optimise returned at the limit: each of its 20 runs made the
\* graph smaller.
C29_Witness ==
  /\ opt_pc = "returned"
  /\ opt_stop = "limit"
  /\ opt_args.limit = DefaultLimit
  /\ RunsCompleted = DefaultLimit
  /\ \A j \in 1 .. DefaultLimit : StrictlySmaller(SizeAfter(j), SizeBefore(j))

\* ---------------------------------------------------------------------
\* build_graph as Dijkstra's algorithm.
\* ---------------------------------------------------------------------

\* The pops of build_graph that expanded chunk id.
Expansions(id) ==
  {r \in BagToSet(build_log) : r.id = id /\ r.outcome = "expanded"}

\* The number of items build_graph has put on its frontier: those it has
\* popped and those still there.
ItemsPushed == BagCardinality(build_log) + BagCardinality(build_frontier)

\* The number of links of the chunks build_graph has expanded.
RECURSIVE LinksExpanded(_)
LinksExpanded(ids) ==
  IF ids = {} THEN 0
  ELSE CHOOSE n \in {Len(expanded_chunks[id].range.links) + LinksExpanded(ids \ {id}) :
                       id \in {CHOOSE x \in ids : TRUE}} : TRUE

\* C30: build_graph expands each chunk id at most once; the items on its
\* frontier are the starts and one per link of every chunk it expanded, so
\* none comes from a chunk rejected for length; and in the graph returned
\* lb_distance_from_rounds of every chunk is the length of the shortest way
\* along the layout's links from a start to it, 0 for a start.
C30_DijkstraExpandsOnceAtShortestDistance ==
  /\ \A id \in DOMAIN build_args.layout.ranges :
       /\ Cardinality(Expansions(id)) <= 1
       /\ \A r \in Expansions(id) :
            /\ CopiesIn(r, build_log) = 1
            /\ id \in DOMAIN expanded_chunks
            /\ expanded_chunks[id].distance = r.distance
  /\ build_pc = "dijkstra" =>
       ItemsPushed = Len(build_args.layout.start_ids)
                       + LinksExpanded(DOMAIN expanded_chunks)
  /\ Built =>
       /\ \A id \in DOMAIN chunks :
            chunks[id].lb_distance_from_rounds
              = ShortestDistance(build_args.layout)[id]
       /\ \A k \in 1 .. Len(start_chunks) :
            start_chunks[k][1] \in DOMAIN chunks =>
              chunks[start_chunks[k][1]].lb_distance_from_rounds = 0

\* A graph was built in which a chunk was popped again after it had been
\* expanded at a shorter distance, and a chunk was rejected for length whose
\* successor is in the graph, reached another way.
C30_Witness ==
  /\ Built
  /\ \E r \in BagToSet(build_log) :
       /\ r.outcome = "expanded before"
       /\ expanded_chunks[r.id].distance < r.distance
  /\ \E r \in BagToSet(build_log) :
       /\ r.outcome = "too long"
       /\ \E k \in 1 .. Len(build_args.layout.ranges[r.id].links) :
            build_args.layout.ranges[r.id].links[k][2] \in DOMAIN chunks

\* ------------------------------------------ what a frontier prefix records
\* The number of links of a path, counted down its list.
RECURSIVE Depth(_)
Depth(path) == IF path.tag = "Start" THEN 0 ELSE 1 + Depth(path.lhs)

\* The path as it was when it had k links.
RECURSIVE AtDepth(_, _)
AtDepth(path, k) == IF Depth(path) = k THEN path ELSE AtDepth(path.lhs, k)

\* The start a path began at and the links it took, the first taken first.
StartTaken(path) == AtDepth(path, 0).idx
LinksTaken(path) == [k \in 1 .. Depth(path) |-> AtDepth(path, k).link]

\* The node a path stands at.
RECURSIVE NodeAfter(_)
NodeAfter(path) ==
  IF path.tag = "Start" THEN graph.starts[path.idx].node
  ELSE LinkTarget(NodeAfter(path.lhs), path.link)

\* The nodes on a path, from its start node to the node it stands at.
NodesOn(path) == [k \in 1 .. Depth(path) + 1 |-> NodeAfter(AtDepth(path, k - 1))]

RECURSIVE SumOfNodeLengths(_)
SumOfNodeLengths(ns) ==
  IF ns = << >> THEN 0
  ELSE graph.nodes[Head(ns)].length + SumOfNodeLengths(Tail(ns))

RECURSIVE SumOfNodeScores(_)
SumOfNodeScores(ns) ==
  IF ns = << >> THEN 0
  ELSE graph.nodes[Head(ns)].score + SumOfNodeScores(Tail(ns))

\* C35: every prefix in the frontier has the summed length and the summed
\* score of the nodes on its path, its node_idx is the node its links lead to
\* from its start, and its path flattens to the start index and the links in
\* the order they were taken.
C35_PrefixRecordsItsPath ==
  \A q \in BagToSet(frontier) :
    LET ns == NodesOn(q.path)
    IN  /\ CompPath_flatten(q.path) = <<StartTaken(q.path), LinksTaken(q.path)>>
        /\ q.length = SumOfNodeLengths(ns)
        /\ q.score = SumOfNodeScores(ns)
        /\ q.node_idx = ns[Len(ns)]
        /\ q.node_idx = PathNodes(PathStart(q.path), PathLinks(q.path))[Len(ns)]

\* A prefix of two different links is in the frontier, over nodes that all
\* count towards its length.
C35_Witness ==
  \E q \in BagToSet(frontier) :
    /\ Depth(q.path) = 2
    /\ LinksTaken(q.path)[1] # LinksTaken(q.path)[2]
    /\ \A k \in 1 .. 3 : graph.nodes[NodesOn(q.path)[k]].length > 0

\* =========================================================================
\* EngineWorker::compose: the depth-first search of the engine crate
\* =========================================================================

\* The largest len_range.end a worker is given.
MaxEngLenEnd == 4

\* A node of the worker's graph: its payload's length, and what
\* Node::successors and Node::false_nodes return for it.
EngNode(length, successors, false_nodes) ==
  [length |-> length, successors |-> successors, false_nodes |-> false_nodes]

\* The successors of three nodes: a diamond, every node after every node,
\* and a ring.
EngSuccessors ==
  { << <<2, 3>>, <<3>>, << >> >>,
    << <<1, 2, 3>>, <<1, 2, 3>>, <<1, 2, 3>> >>,
    << <<2>>, <<3>>, <<1>> >> }

\* The false_nodes of three nodes: none; each node itself; two nodes each
\* other's; one node listed by another only; a node listed twice.
EngFalseNodes ==
  { << << >>, << >>, << >> >>,
    << <<1>>, <<2>>, <<3>> >>,
    << <<2>>, <<1>>, << >> >>,
    << <<3>>, << >>, << >> >>,
    << <<2, 2>>, << >>, <<3>> >> }

EngLengths == { <<1, 1, 1>>, <<2, 1, 1>>, <<1, 1, 2>> }

EngStartNodes == { << >>, <<1>>, <<1, 2>> }

EngGraphs ==
  { [k \in 1 .. 3 |-> EngNode(len[k], succ[k], fls[k])] :
      len \in EngLengths, succ \in EngSuccessors, fls \in EngFalseNodes }

\* `cell.set(cell.get() + 1)` and `cell.set(cell.get() - 1)` on a Cell<u32>.
\* A count below 0 stands for the u32 that many below 2^32: it is not 0, and
\* adding to it brings it back as the wrapping arithmetic does.
AddOne(counts, n) == [counts EXCEPT ![n] = @ + 1]
SubOne(counts, n) == [counts EXCEPT ![n] = @ - 1]

\* `for &n in node.false_nodes()`, incrementing and decrementing.
RECURSIVE IncAll(_, _)
IncAll(counts, ns) ==
  IF ns = << >> THEN counts ELSE IncAll(AddOne(counts, Head(ns)), Tail(ns))

RECURSIVE DecAll(_, _)
DecAll(counts, ns) ==
  IF ns = << >> THEN counts ELSE DecAll(SubOne(counts, Head(ns)), Tail(ns))

\* ADD THE NODE TO THE COMPOSITION: its own count, then its false nodes'.
AddToComp(counts, n) == IncAll(AddOne(counts, n), eng_args.graph[n].false_nodes)

\* A mutation of the removal: only the node's own count is decremented.
RemoveFromComp_own_only(counts, n) == SubOne(counts, n)

\* REMOVE THIS NODE FROM THE COMPOSITION: its own count, then its false
\* nodes'.
RemoveFromComp(counts, n) ==
  DecAll(SubOne(counts, n), eng_args.graph[n].false_nodes)

\* A mutation of the length test: a composition of len_range.end rows passes.
ExceedsLength_strict(len_after_this_node, end) == len_after_this_node > end

\* `len_after_this_node >= self.len_range.end`
ExceedsLength(len_after_this_node, end) == len_after_this_node >= end

\* A call of expand_node as it starts: the counts and the prefix it found.
ExpandFrame(n, length) ==
  [fn |-> "expand_node", node |-> n, length |-> length, at |-> "entry",
   next |-> 0, added |-> 0, counts0 |-> falseness_count,
   prefix0 |-> comp_prefix]

\* What a call of expand_node leaves behind as it returns.
Returning(frame, pruned, counts) ==
  [node |-> frame.node, pruned |-> pruned, added |-> frame.added,
   counts0 |-> frame.counts0, prefix0 |-> frame.prefix0,
   counts |-> counts, prefix |-> comp_prefix]

EngTop == eng_stack[Len(eng_stack)]

\* The stack once its innermost call has returned: the caller, if it is
\* expand_node, is back in its loop, after the call.
EngPopped(pruned) ==
  LET rest == SubSeq(eng_stack, 1, Len(eng_stack) - 1)
      caller == rest[Len(rest)]
  IN  IF caller.fn = "expand_node"
      THEN [rest EXCEPT ![Len(rest)] =
              [caller EXCEPT !.at = "after call",
                             !.added = IF pruned THEN @ ELSE @ + 1]]
      ELSE rest

EngInit ==
  /\ SearchIdle
  /\ AbortIdle
  /\ CliIdle
  /\ BuildIdle
  /\ OptIdle
  /\ LibIdle
  /\ RowsIdle
  /\ IterIdle
  /\ eng_pc = "running"
  /\ eng_args \in [graph : EngGraphs, start_nodes : EngStartNodes,
                   len_end : 1 .. MaxEngLenEnd]
  /\ falseness_count = [n \in 1 .. 3 |-> 0]
  /\ comp_prefix = << >>
  /\ eng_stack = << [fn |-> "compose", next |-> 1] >>
  /\ eng_last = << >>

\* compose: `for n in self.graph.start_nodes.clone()`, calling expand_node
\* on each start with length 0, and returning after the last.
ComposeNext ==
  /\ eng_pc = "running"
  /\ EngTop.fn = "compose"
  /\ IF EngTop.next <= Len(eng_args.start_nodes)
     THEN /\ eng_stack' = << [EngTop EXCEPT !.next = @ + 1],
                             ExpandFrame(eng_args.start_nodes[EngTop.next], 0) >>
          /\ UNCHANGED eng_pc
     ELSE /\ eng_pc' = "returned"
          /\ eng_stack' = << >>
  /\ UNCHANGED <<eng_args, falseness_count, comp_prefix, eng_last, notEngVars>>

\* expand_node from its entry to its loop: the node is pruned, for being
\* false or for making the composition too long, or it is added.
ExpandEnter ==
  /\ eng_pc = "running"
  /\ EngTop.fn = "expand_node"
  /\ EngTop.at = "entry"
  /\ LET n == EngTop.node
         len_after_this_node == EngTop.length + eng_args.graph[n].length
     IN  IF \/ falseness_count[n] # 0
            \/ ExceedsLength(len_after_this_node, eng_args.len_end)
         THEN /\ eng_last' = Returning(EngTop, TRUE, falseness_count)
              /\ eng_stack' = EngPopped(TRUE)
              /\ UNCHANGED falseness_count
         ELSE /\ falseness_count' = AddToComp(falseness_count, n)
              /\ eng_stack' = [eng_stack EXCEPT ![Len(eng_stack)] =
                                 [@ EXCEPT !.at = "loop",
                                           !.length = len_after_this_node]]
              /\ UNCHANGED eng_last
  /\ UNCHANGED <<eng_pc, eng_args, comp_prefix, notEngVars>>

\* `self.comp_prefix.pop()` after the call for a successor has returned.
ExpandAfterCall ==
  /\ eng_pc = "running"
  /\ EngTop.fn = "expand_node"
  /\ EngTop.at = "after call"
  /\ comp_prefix' = SubSeq(comp_prefix, 1, Len(comp_prefix) - 1)
  /\ eng_stack' = [eng_stack EXCEPT ![Len(eng_stack)] = [@ EXCEPT !.at = "loop"]]
  /\ UNCHANGED <<eng_pc, eng_args, falseness_count, eng_last, notEngVars>>

\* The loop over the successors: the next one's index is pushed and
\* expand_node called on it; after the last, the node is removed, the count
\* asserted to be 0 again, and the call returns.
ExpandLoop ==
  /\ eng_pc = "running"
  /\ EngTop.fn = "expand_node"
  /\ EngTop.at = "loop"
  /\ LET n == EngTop.node
         succs == eng_args.graph[n].successors
     IN  IF EngTop.next < Len(succs)
         THEN /\ comp_prefix' = Append(comp_prefix, EngTop.next)
              /\ eng_stack' =
                   Append([eng_stack EXCEPT ![Len(eng_stack)] =
                             [@ EXCEPT !.next = @ + 1]],
                          [ExpandFrame(succs[EngTop.next + 1], EngTop.length)
                             EXCEPT !.prefix0 = comp_prefix'])
              /\ UNCHANGED <<eng_pc, falseness_count, eng_last>>
         ELSE LET counts == RemoveFromComp(falseness_count, n)
              IN  /\ falseness_count' = counts
                  /\ comp_prefix' = comp_prefix
                  /\ eng_last' = Returning(EngTop, FALSE, counts)
                  /\ IF counts[n] = 0
                     THEN /\ eng_stack' = EngPopped(FALSE)
                          /\ UNCHANGED eng_pc
                     ELSE /\ eng_pc' = "panicked"
                          /\ UNCHANGED eng_stack
  /\ UNCHANGED <<eng_args, notEngVars>>

EngNext == ComposeNext \/ ExpandEnter \/ ExpandAfterCall \/ ExpandLoop

SpecEngine == EngInit /\ [][EngNext]_vars

\* ------------------------------------------------- reading the search
\* The calls of expand_node that have added their node and not removed it.
AddedFrames ==
  {k \in 1 .. Len(eng_stack) :
     eng_stack[k].fn = "expand_node" /\ eng_stack[k].at # "entry"}

\* The nodes on the current path.
OnPath == {eng_stack[k].node : k \in AddedFrames}

\* Node m lists node n in its false_nodes.
ListsAsFalse(m, n) ==
  \E k \in 1 .. Len(eng_args.graph[m].false_nodes) :
    eng_args.graph[m].false_nodes[k] = n

RECURSIVE SumOfPayloadLengths(_)
SumOfPayloadLengths(ks) ==
  IF ks = {} THEN 0
  ELSE LET k == CHOOSE k \in ks : TRUE
       IN  eng_args.graph[eng_stack[k].node].length + SumOfPayloadLengths(ks \ {k})

\* C32: a call of expand_node that returns leaves every falseness_count and
\* comp_prefix as it found them; once compose has returned every count is 0
\* and comp_prefix is empty; neither debug assertion fails.
C32_ExpandNodeRestoresState ==
  /\ eng_pc # "panicked"
  /\ eng_last # << >> =>
       /\ eng_last.counts = eng_last.counts0
       /\ eng_last.prefix = eng_last.prefix0
  /\ eng_pc = "returned" =>
       /\ \A n \in DOMAIN falseness_count : falseness_count[n] = 0
       /\ comp_prefix = << >>

\* compose has returned, and the call that returned last had explored
\* successors of its own under a prefix, with nodes false against its node.
C32_Witness ==
  /\ eng_pc = "returned"
  /\ eng_last # << >>
  /\ eng_last.pruned = FALSE
  /\ eng_last.added > 0
  /\ eng_args.graph[eng_last.node].false_nodes # << >>
  /\ Len(eng_args.start_nodes) = 2

\* C33: a node's falseness_count is 0 iff it is not on the current path and
\* no node on the path lists it in false_nodes; a node on the path is not
\* listed by any node added before it; and the path's total length is
\* below len_range.end.
C33_CountZeroIffFreeOfPath ==
  eng_pc = "running" =>
    /\ \A n \in DOMAIN falseness_count :
         falseness_count[n] = 0 <=>
           (n \notin OnPath /\ \A m \in OnPath : ~ListsAsFalse(m, n))
    /\ \A k \in AddedFrames : \A j \in AddedFrames :
         j < k => /\ ~ListsAsFalse(eng_stack[j].node, eng_stack[k].node)
                  /\ eng_stack[j].node # eng_stack[k].node
    /\ SumOfPayloadLengths(AddedFrames) < eng_args.len_end
    /\ \A k \in AddedFrames :
         eng_stack[k].length = SumOfPayloadLengths({j \in AddedFrames : j <= k})

\* Three nodes are on the path, one short of len_range.end, and a node false
\* against one of them has been pruned.
C33_Witness ==
  /\ eng_pc = "running"
  /\ Cardinality(AddedFrames) = 3
  /\ SumOfPayloadLengths(AddedFrames) = eng_args.len_end - 1
  /\ eng_last # << >>
  /\ eng_last.pruned
  /\ \E m \in OnPath : ListsAsFalse(m, eng_last.node) /\ m # eng_last.node

\* ------------------------------------------------ the reset of the flag
\* Query::search has made its store of false.
FlagReset == search_pc # "call"

\* Worker w has started: it polls the flag between its iterations.
WorkerStarted(w) == workers[w].at # "idle"

\* C34: Query::search stores false before any worker reads the flag; the
\* flag is false as the store completes, whatever it held before the call,
\* and becomes true afterwards only by a store of true; a worker aborts only
\* on a flag that is true after the reset.
C34_FlagResetBeforeWorkersRead ==
  /\ [](\A w \in Workers : WorkerStarted(w) => FlagReset)
  /\ [][(~FlagReset /\ FlagReset') => ~abort_flag']_vars
  /\ [][(FlagReset /\ ~abort_flag /\ abort_flag') => SetAbort]_vars
  /\ [][(FlagReset /\ abort_flag) => abort_flag']_vars
  /\ [](\A w \in Workers :
          (workers[w].observed \/ workers[w].at = "ack") =>
            (FlagReset /\ abort_flag))
  /\ [](collector.abort_seen => (FlagReset /\ abort_flag))

\* The search was aborted: a worker has seen the flag set after the reset and
\* exited, and the collector has its acknowledgement, while another worker
\* has not polled since.
C34_Witness ==
  /\ search_pc = "running"
  /\ abort_flag
  /\ collector.abort_seen
  /\ \E w \in Workers : workers[w].observed /\ workers[w].at = "exited"
  /\ \E w \in Workers : ~workers[w].observed /\ workers[w].at = "send"

\* =========================================================================
\* Calls of functions of the graph, bellframe and engine crates
\* =========================================================================

\* ------------------------------------ monument_graph's Graph::from_layout
\* The largest max_len from_layout is called with as max_length.
MaxGraphLength == 4

\* NodeId::new(course_head, row_idx, is_start)
NodeId_new(course_head, row_idx, is_start) == <<course_head, row_idx, is_start>>

\* A Segment as Layout::get_segment returns it.
Segment(length, links, end_label) ==
  [length |-> length, links |-> links, end_label |-> end_label]

\* Segment::is_end
is_end(segment) == IsSome(segment.end_label)

\* Layouts: their starts, and the segment that begins at each node id.
\* A start that runs on to an end; the same with a longer start segment.
LayoutStartToEnd(len) ==
  [starts |-> << [course_head |-> "a", row_idx |-> 0] >>,
   segments |->
     (NodeId_new("a", 0, TRUE) :>
        Segment(len, << <<0, NodeId_new("a", 2, FALSE)>> >>, None))
     @@ (NodeId_new("a", 2, FALSE) :> Segment(1, << >>, Some("end")))]

\* A start that is at once an end.
LayoutStartIsEnd ==
  [starts |-> << [course_head |-> "a", row_idx |-> 0] >>,
   segments |-> (NodeId_new("a", 0, TRUE) :> Segment(1, << >>, Some("end")))]

\* Two starts that lead by one node to an end, and from the node back to it.
LayoutTwoStarts ==
  [starts |-> << [course_head |-> "a", row_idx |-> 0],
                 [course_head |-> "b", row_idx |-> 0] >>,
   segments |->
     (NodeId_new("a", 0, TRUE) :>
        Segment(1, << <<0, NodeId_new("a", 1, FALSE)>> >>, None))
     @@ (NodeId_new("b", 0, TRUE) :>
        Segment(2, << <<1, NodeId_new("a", 1, FALSE)>> >>, None))
     @@ (NodeId_new("a", 1, FALSE) :>
        Segment(1, << <<0, NodeId_new("a", 1, FALSE)>>,
                      <<1, NodeId_new("b", 3, FALSE)>> >>, None))
     @@ (NodeId_new("b", 3, FALSE) :> Segment(1, << >>, Some("end")))]

\* A start whose link leads to a node id with no segment.
LayoutNoSegment ==
  [starts |-> << [course_head |-> "a", row_idx |-> 0] >>,
   segments |->
     (NodeId_new("a", 0, TRUE) :>
        Segment(1, << <<0, NodeId_new("a", 1, FALSE)>> >>, None))]

\* No start at all.
LayoutEmpty == [starts |-> << >>, segments |-> << >>]

GraphLayouts ==
  {LayoutStartToEnd(1), LayoutStartToEnd(2), LayoutStartIsEnd, LayoutTwoStarts,
   LayoutNoSegment, LayoutEmpty}

\* Layout::get_segment
get_segment(layout, node_id) ==
  IF node_id \in DOMAIN layout.segments
  THEN Some(layout.segments[node_id]) ELSE None

\* The Dijkstra loop of from_layout: the item of least distance is popped;
\* skipped if its node is expanded already or would end beyond max_length;
\* otherwise noted as an end if it is one, its successors pushed and the node
\* marked expanded. A node id without a segment panics.
RECURSIVE Dijkstra(_, _, _, _, _)
Dijkstra(layout, max_len, todo, expanded_nodes, ends) ==
  IF todo = {}
  THEN [panicked |-> FALSE, expanded_nodes |-> expanded_nodes, end_nodes |-> ends]
  ELSE
    LET item == CHOOSE x \in todo : \A y \in todo : x.distance <= y.distance
        rest == todo \ {item}
        node_id == item.item
        found == get_segment(layout, node_id)
    IN  IF node_id \in DOMAIN expanded_nodes
        THEN Dijkstra(layout, max_len, rest, expanded_nodes, ends)
        ELSE IF found = None
        THEN [panicked |-> TRUE]
        ELSE
          LET segment == found[1]
              new_dist == item.distance + segment.length
          IN  IF new_dist > max_len
              THEN Dijkstra(layout, max_len, rest, expanded_nodes, ends)
              ELSE Dijkstra(layout, max_len,
                     rest \cup {[item |-> segment.links[k][2], distance |-> new_dist] :
                                  k \in 1 .. Len(segment.links)},
                     expanded_nodes @@
                       (node_id :> [segment |-> segment, distance |-> item.distance]),
                     IF is_end(segment) THEN Append(ends, node_id) ELSE ends)

\* The Node from_layout makes of an expanded segment; its predecessors are
\* the links of the graph's nodes that lead to it, whatever order the map of
\* expanded nodes is walked in.
NodeFromSegment(node_id, expanded_nodes) ==
  LET segment == expanded_nodes[node_id].segment
  IN  [length |-> segment.length,
       start_label |-> segment.end_label,
       end_label |-> segment.end_label,
       lb_distance_from_rounds |-> expanded_nodes[node_id].distance,
       lb_distance_to_rounds |-> 0,
       successors |-> segment.links,
       predecessors |->
         UNION {{<<expanded_nodes[f].segment.links[k][1], f>> :
                   k \in {j \in 1 .. Len(expanded_nodes[f].segment.links) :
                            expanded_nodes[f].segment.links[j][2] = node_id}} :
                f \in DOMAIN expanded_nodes}]

\* Graph::from_layout(layout, music_types, max_length)
Graph_from_layout(layout, max_len) ==
  LET start_node_ids ==
        [k \in 1 .. Len(layout.starts) |->
           NodeId_new(layout.starts[k].course_head, layout.starts[k].row_idx, TRUE)]
      done == Dijkstra(layout, max_len,
                {[item |-> start_node_ids[k], distance |-> 0] :
                   k \in 1 .. Len(start_node_ids)},
                << >>, << >>)
  IN  IF done.panicked THEN Panicked
      ELSE Returned(
             [nodes |-> [node_id \in DOMAIN done.expanded_nodes |->
                           NodeFromSegment(node_id, done.expanded_nodes)],
              start_nodes |-> start_node_ids,
              end_nodes |-> done.end_nodes])

CallGraphFromLayout ==
  /\ lib_call = << >>
  /\ \E layout \in GraphLayouts : \E max_len \in 0 .. MaxGraphLength :
       /\ lib_call' = Call("Graph::from_layout", <<layout, max_len>>)
       /\ lib_result' = Graph_from_layout(layout, max_len)
  /\ UNCHANGED notLibVars

\* -------------------------------------------------- the engine's Layout
\* The largest start_idx and the largest length of a SegmentRange given to
\* split_range.
MaxStartIdx == 4
MaxRangeLen == 3

SegmentRange(start_idx, length) == [start_idx |-> start_idx, length |-> length]

\* Blocks of rows on three bells: the six rows of plain hunt, and two rows.
HuntBlock ==
  << <<1, 2, 3>>, <<2, 1, 3>>, <<2, 3, 1>>, <<3, 2, 1>>, <<3, 1, 2>>, <<1, 3, 2>> >>
PairBlock == << <<1, 2, 3>>, <<1, 3, 2>> >>

\* `self.blocks[block_idx]`, which panics out of bounds.
BlockAt(layout, block_idx) ==
  IF block_idx < Len(layout.blocks)
  THEN Returned(layout.blocks[block_idx + 1]) ELSE Panicked

\* A mutation of split_range: the second piece starts where the first does.
split_range_same_start(layout, block_idx, range, split_idx) ==
  IF ~(split_idx <= range.length) THEN Panicked
  ELSE IF ~BlockAt(layout, block_idx).returned THEN Panicked
  ELSE IF Len(BlockAt(layout, block_idx).value) = 0 THEN Panicked
  ELSE Returned(<<SegmentRange(range.start_idx, split_idx),
                  SegmentRange(range.start_idx % Len(BlockAt(layout, block_idx).value),
                               range.length - split_idx)>>)

\* Layout::split_range: the assertion, then the two pieces; indexing
\* `self.blocks` out of bounds and the remainder by the length of an empty
\* block panic.
split_range(layout, block_idx, range, split_idx) ==
  IF ~(split_idx <= range.length) THEN Panicked
  ELSE IF ~BlockAt(layout, block_idx).returned THEN Panicked
  ELSE IF Len(BlockAt(layout, block_idx).value) = 0 THEN Panicked
  ELSE Returned(<<SegmentRange(range.start_idx, split_idx),
                  SegmentRange((range.start_idx + split_idx)
                                 % Len(BlockAt(layout, block_idx).value),
                               range.length - split_idx)>>)

\* The rows `block.iter().cycle().skip(start_idx).take(length)` yields; an
\* empty block yields none.
RowsOfRange(block, range) ==
  IF block = << >> THEN << >>
  ELSE [k \in 1 .. range.length |->
          block[((range.start_idx + k - 1) % Len(block)) + 1]]

\* Layout::segment_rows
segment_rows(layout, segment_idx) ==
  LET row_range == layout.segments[segment_idx + 1].row_range
  IN  RowsOfRange(layout.blocks[row_range[1] + 1], row_range[2])

\* `r[fixed_bell.index()] != *fixed_bell` for no fixed bell.
FixedBellsHome(fixed_bells, r) ==
  \A k \in 1 .. Len(fixed_bells) : r[fixed_bells[k]] = fixed_bells[k]

Row_inv(r) == [k \in DOMAIN r |-> CHOOSE j \in DOMAIN r : r[j] = k]

\* The Start and the End segment made for row row_idx of segment s, with
\* the segment each truncates.
StartAndEnd(layout, seg_idx, row_idx) ==
  LET s == layout.segments[seg_idx + 1]
      r == segment_rows(layout, seg_idx)[row_idx + 1]
      pieces == split_range(layout, s.row_range[1], s.row_range[2], row_idx).value
      end_seg_range == pieces[1]
      start_seg_range == pieces[2]
  IN  << <<None,
           [s EXCEPT !.row_range = <<s.row_range[1], start_seg_range>>,
                     !.position = "Start",
                     !.course_head_masks = << Row_inv(r) >>]>>,
         <<Some(seg_idx),
           [s EXCEPT !.row_range = <<s.row_range[1], end_seg_range>>,
                     !.position = "End",
                     !.course_head_masks = << Row_inv(r) >>,
                     !.links = << >>,
                     !.truncations = << >>]>> >>

\* The new segments of the rows of segment seg_idx from row_idx on.
RECURSIVE NewSegmentsOfRows(_, _, _)
NewSegmentsOfRows(layout, seg_idx, row_idx) ==
  IF row_idx >= Len(segment_rows(layout, seg_idx)) THEN << >>
  ELSE (IF FixedBellsHome(layout.fixed_bells,
                          segment_rows(layout, seg_idx)[row_idx + 1])
        THEN StartAndEnd(layout, seg_idx, row_idx) ELSE << >>)
       \o NewSegmentsOfRows(layout, seg_idx, row_idx + 1)

\* `new_segments` after the loop over the segments from seg_idx on.
RECURSIVE NewSegments(_, _)
NewSegments(layout, seg_idx) ==
  IF seg_idx >= Len(layout.segments) THEN << >>
  ELSE NewSegmentsOfRows(layout, seg_idx, 0) \o NewSegments(layout, seg_idx + 1)

\* The loop that adds the new segments: the id is the length of `segments`
\* before the push, and goes into the truncations of the parent if any.
RECURSIVE AddSegments(_, _)
AddSegments(segments, new_segments) ==
  IF new_segments = << >> THEN segments
  ELSE LET truncation_parent == Head(new_segments)[1]
           new_seg == Head(new_segments)[2]
           new_seg_id == Len(segments)
           told == IF IsSome(truncation_parent)
                   THEN [segments EXCEPT ![truncation_parent[1] + 1].truncations =
                           Append(@, new_seg_id)]
                   ELSE segments
       IN  AddSegments(Append(told, new_seg), Tail(new_segments))

\* Layout::generate_starts_and_end_nodes: the layout it leaves, or the
\* panic of its assertion that rounds is reachable.
generate_starts_and_end_nodes(layout) ==
  LET new_segments == NewSegments(layout, 0)
  IN  IF ~(Len(new_segments) > 0) THEN Panicked
      ELSE Returned([layout EXCEPT !.segments = AddSegments(@, new_segments)])

\* A central segment over a range of block 0, with one link and with the
\* truncations it has already.
CentralSegment(start_idx, length, truncations) ==
  [row_range |-> <<0, SegmentRange(start_idx, length)>>,
   links |-> << [end_segment |-> 0, transposition |-> rounds] >>,
   course_head_masks |-> << >>, name |-> "",
   truncations |-> truncations, position |-> "Central"]

\* The layouts split_range is called on: one block, two blocks the second of
\* them empty, no block.
SplitLayouts ==
  {[blocks |-> bs, segments |-> << >>, fixed_bells |-> << >>] :
     bs \in {<<HuntBlock>>, <<PairBlock, << >> >>, << >>}}

\* The layouts generate_starts_and_end_nodes is called on: one or two
\* segments of the hunt block.
StartsLayouts ==
  {[blocks |-> <<HuntBlock>>, segments |-> segs, fixed_bells |-> fixed] :
     segs \in {<<CentralSegment(a, n, << >>)>> : a \in 0 .. MaxStartIdx,
                                               n \in 0 .. MaxRangeLen}
            \cup {<<CentralSegment(a, n, <<7>>), CentralSegment(3, 1, << >>)>> :
                    a \in 0 .. MaxStartIdx, n \in 0 .. MaxRangeLen},
     fixed \in {<< >>, <<1>>, <<3>>, <<1, 2, 3>>}}

CallSplitRange ==
  /\ lib_call = << >>
  /\ \E layout \in SplitLayouts : \E block_idx \in 0 .. 2 :
       \E start_idx \in 0 .. MaxStartIdx : \E length \in 0 .. MaxRangeLen :
         \E split_idx \in 0 .. MaxRangeLen + 1 :
           /\ lib_call' = Call("Layout::split_range",
                  <<layout, block_idx, SegmentRange(start_idx, length), split_idx>>)
           /\ lib_result' = split_range(layout, block_idx,
                                SegmentRange(start_idx, length), split_idx)
  /\ UNCHANGED notLibVars

CallGenerateStartsAndEndNodes ==
  /\ lib_call = << >>
  /\ \E layout \in StartsLayouts :
       /\ lib_call' = Call("Layout::generate_starts_and_end_nodes", <<layout>>)
       /\ lib_result' = generate_starts_and_end_nodes(layout)
  /\ UNCHANGED notLibVars

\* -------------------------------------------------- single_meth::Table
\* The largest bound of a range Table::new is given.
MaxRowIdx == 3

\* Row::place_of, and get_bell_inds: the places of the bells in a row.
place_of(r, bell) == CHOOSE place \in DOMAIN r : r[place] = bell
get_bell_inds(bells, r) == [k \in 1 .. Len(bells) |-> place_of(r, bells[k])]

\* A Range<usize> and its len(), which is 0 when the end is not above the
\* start.
Range(start, end) == [start |-> start, end |-> end]
Range_len(r) == IF r.start < r.end THEN r.end - r.start ELSE 0

\* `&plain_course_rows[lead_range.clone()]`: the rows at start..end, the
\* end excluded; the slice panics if the range is reversed or leaves the
\* vector.
RowsSliced(course_rows, lead_range) ==
  IF lead_range.start > lead_range.end \/ lead_range.end > Len(course_rows)
  THEN Panicked
  ELSE Returned({course_rows[k] :
                   k \in lead_range.start + 1 .. lead_range.end})

\* `rows_by_fixed_bell_indices` of one range: its rows grouped by the places
\* of the fixed bells.
GroupRows(fixed_bells, rows) ==
  [inds \in {get_bell_inds(fixed_bells, r) : r \in rows} |->
     {r \in rows : get_bell_inds(fixed_bells, r) = inds}]

\* `falseness_map`: (i1, i2, X) for every r1 of range i1 and r2 of range i2
\* grouped under the same places, X the transposition of r2 to r1.
FalsenessMap(grouped_rows) ==
  UNION {
    UNION {
      {<<i1 - 1, i2 - 1, solve_xa_equals_b(r2, r1)>> :
         r1 \in grouped_rows[i1][inds], r2 \in grouped_rows[i2][inds]} :
      inds \in DOMAIN grouped_rows[i1] \cap DOMAIN grouped_rows[i2]} :
    i1 \in 1 .. Len(grouped_rows), i2 \in 1 .. Len(grouped_rows)}

\* The order `(a.1.ind, &a.0).cmp(&(b.1.ind, &b.0))` sorts an entry list by:
\* the section first, then the row, bell by bell.
EntryBefore(a, b) ==
  \/ a[2] < b[2]
  \/ /\ a[2] = b[2]
     /\ \E k \in DOMAIN a[1] :
          /\ a[1][k] < b[1][k]
          /\ \A j \in 1 .. k - 1 : a[1][j] = b[1][j]

\* A set of (row, section) entries as the sorted Vec.
RECURSIVE SortedEntries(_)
SortedEntries(entries) ==
  IF entries = {} THEN << >>
  ELSE LET first == CHOOSE a \in entries :
                      \A b \in entries \ {a} : EntryBefore(a, b)
       IN  <<first>> \o SortedEntries(entries \ {first})

\* single_meth::Table::new: the falseness table and the lengths.
Table_new(course_rows, fixed_bells, ranges) ==
  LET sliced == [k \in 1 .. Len(ranges) |-> RowsSliced(course_rows, ranges[k])]
  IN  IF \E k \in 1 .. Len(ranges) : ~sliced[k].returned THEN Panicked
      ELSE
        LET grouped_rows ==
              [k \in 1 .. Len(ranges) |-> GroupRows(fixed_bells, sliced[k].value)]
            falseness_map == FalsenessMap(grouped_rows)
        IN  Returned(
              [falseness |->
                 [k \in 1 .. Len(ranges) |->
                    SortedEntries({<<t[3], t[2]>> :
                                     t \in {u \in falseness_map : u[1] = k - 1}})],
               lengths |-> [k \in 1 .. Len(ranges) |-> Range_len(ranges[k]) + 1]])

\* The lists of one or two ranges Table::new is given.
RangeLists ==
  {<<Range(a, b)>> : a \in 0 .. MaxRowIdx, b \in 0 .. MaxRowIdx}
  \cup {<<Range(a, b), Range(c, d)>> :
          a \in 0 .. MaxRowIdx, b \in 0 .. MaxRowIdx,
          c \in 0 .. MaxRowIdx, d \in 0 .. MaxRowIdx}

CallTableNew ==
  /\ lib_call = << >>
  /\ \E ranges \in RangeLists : \E fixed_bells \in {<< >>, <<3>>, <<1, 2, 3>>} :
       /\ lib_call' = Call("Table::new", <<HuntBlock, fixed_bells, ranges>>)
       /\ lib_result' = Table_new(HuntBlock, fixed_bells, ranges)
  /\ UNCHANGED notLibVars

CallsNext ==
  \/ CallGraphFromLayout
  \/ CallSplitRange
  \/ CallGenerateStartsAndEndNodes
  \/ CallTableNew

SpecCalls == LibInit /\ [][CallsNext]_vars

\* A graph has been built.
GraphBuilt == Called("Graph::from_layout") /\ lib_result.returned

\* The ids of a list that refer to a node of the built graph.
ReferringIds(ids) ==
  {ids[k] : k \in {j \in 1 .. Len(ids) :
                     ids[j] \in DOMAIN lib_result.value.nodes}}

\* C31: in every graph from_layout builds, an id of start_nodes that refers
\* to a node refers to a node with start_label set and no predecessors, and
\* an id of end_nodes that refers to a node refers to a node with end_label
\* set and no successors.
C31_StartAndEndNodesAreStartsAndEnds ==
  GraphBuilt =>
    LET g == lib_result.value
    IN  /\ \A id \in ReferringIds(g.start_nodes) :
             /\ IsSome(g.nodes[id].start_label)
             /\ g.nodes[id].predecessors = {}
        /\ \A id \in ReferringIds(g.end_nodes) :
             /\ IsSome(g.nodes[id].end_label)
             /\ g.nodes[id].successors = << >>

\* ------------------------------------------------ what split_range returns
\* The arguments of the call of split_range.
SplitLayout == lib_call.args[1]
SplitBlockIdx == lib_call.args[2]
SplitRange == lib_call.args[3]
SplitIdx == lib_call.args[4]

\* block_idx is the index of a block of the layout, and the block has rows.
BlockHasRows ==
  /\ SplitBlockIdx < Len(SplitLayout.blocks)
  /\ SplitLayout.blocks[SplitBlockIdx + 1] # << >>

\* The two pieces are what the claim says: lengths k and length - k, the
\* first from start_idx and the second from (start_idx + k) modulo the
\* block's length, the rows of the two making up the rows of the range.
PiecesAsClaimed ==
  /\ lib_result.returned
  /\ LET first == lib_result.value[1]
         second == lib_result.value[2]
         block == SplitLayout.blocks[SplitBlockIdx + 1]
     IN  /\ first.length = SplitIdx
         /\ second.length = SplitRange.length - SplitIdx
         /\ first.length + second.length = SplitRange.length
         /\ first.start_idx = SplitRange.start_idx
         /\ second.start_idx = (SplitRange.start_idx + SplitIdx) % Len(block)
         /\ RowsOfRange(block, first) \o RowsOfRange(block, second)
              = RowsOfRange(block, SplitRange)

\* The layout generate_starts_and_end_nodes was called on and the segments
\* it left.
OldSegments == lib_call.args[1].segments
AllSegments == lib_result.value.segments

\* The new segments come in pairs, a Start and the End of the same row.
IsNewStart(id) == id >= Len(OldSegments) /\ (id - Len(OldSegments)) % 2 = 0
IsNewEnd(id) == id >= Len(OldSegments) /\ (id - Len(OldSegments)) % 2 = 1

\* The End segment id was made from segment p: an End with no links and no
\* truncations, on the first piece of p's range, with the Start before it on
\* the second piece.
EndMadeFor(id, p) ==
  LET end == AllSegments[id + 1]
      start == AllSegments[id]
      parent == OldSegments[p + 1]
      block == lib_call.args[1].blocks[parent.row_range[1] + 1]
  IN  /\ IsNewEnd(id)
      /\ end.position = "End"
      /\ end.links = << >>
      /\ end.truncations = << >>
      /\ start.position = "Start"
      /\ start.links = parent.links
      /\ end.row_range[1] = parent.row_range[1]
      /\ start.row_range[1] = parent.row_range[1]
      /\ end.row_range[2].start_idx = parent.row_range[2].start_idx
      /\ start.row_range[2].start_idx =
           (parent.row_range[2].start_idx + end.row_range[2].length) % Len(block)
      /\ end.row_range[2].length + start.row_range[2].length
           = parent.row_range[2].length
      /\ RowsOfRange(block, end.row_range[2]) \o RowsOfRange(block, start.row_range[2])
           = RowsOfRange(block, parent.row_range[2])
      /\ FixedBellsHome(lib_call.args[1].fixed_bells,
                        RowsOfRange(block, start.row_range[2])[1])

\* generate_starts_and_end_nodes did as the claim says.
SegmentsAsClaimed ==
  /\ Len(AllSegments) > Len(OldSegments)
  /\ \A p \in 0 .. Len(OldSegments) - 1 :
       LET old == OldSegments[p + 1]
           now == AllSegments[p + 1]
       IN  /\ [now EXCEPT !.truncations = old.truncations] = old
           /\ SubSeq(now.truncations, 1, Len(old.truncations)) = old.truncations
           /\ \A k \in Len(old.truncations) + 1 .. Len(now.truncations) :
                EndMadeFor(now.truncations[k], p)
  /\ \A id \in Len(OldSegments) .. Len(AllSegments) - 1 :
       IsNewEnd(id) =>
         \E p \in 0 .. Len(OldSegments) - 1 :
           /\ EndMadeFor(id, p)
           /\ \E k \in Len(OldSegments[p + 1].truncations) + 1
                        .. Len(AllSegments[p + 1].truncations) :
                AllSegments[p + 1].truncations[k] = id

\* The claim as it stands: whatever the block index, split_range panics iff
\* k > range.length and otherwise returns the pieces.
C39_SplitRangePanicsIffBeyondLength ==
  /\ Called("Layout::split_range") =>
       /\ ~lib_result.returned <=> SplitIdx > SplitRange.length
       /\ SplitIdx <= SplitRange.length => PiecesAsClaimed
  /\ (Called("Layout::generate_starts_and_end_nodes") /\ lib_result.returned) =>
       SegmentsAsClaimed

\* C39: for the index of a block that has rows, split_range(block, range, k)
\* panics iff k > range.length and otherwise returns pieces of lengths k and
\* length - k, from start_idx and from (start_idx + k) modulo the block's
\* length, whose rows together are the rows of the range; for any other
\* block index it panics. In generate_starts_and_end_nodes the first piece
\* is the End segment, without links or truncations, the second the Start
\* segment; the old segments keep their indices, and every id pushed into a
\* parent's truncations is the index of the End segment made for it.
C39_SplitRangeOfBlockWithRows ==
  /\ Called("Layout::split_range") =>
       IF BlockHasRows
       THEN /\ ~lib_result.returned <=> SplitIdx > SplitRange.length
            /\ SplitIdx <= SplitRange.length => PiecesAsClaimed
       ELSE ~lib_result.returned
  /\ (Called("Layout::generate_starts_and_end_nodes") /\ lib_result.returned) =>
       SegmentsAsClaimed

\* A range that wraps round the end of its block was split inside.
C39_Witness ==
  /\ Called("Layout::split_range")
  /\ BlockHasRows
  /\ lib_result.returned
  /\ 0 < SplitIdx
  /\ SplitIdx < SplitRange.length
  /\ SplitRange.start_idx + SplitIdx > Len(SplitLayout.blocks[SplitBlockIdx + 1])
  /\ lib_result.value[2].start_idx < SplitRange.start_idx

\* ------------------------------------------------- what the Table records
TableRows == lib_call.args[1]
TableFixedBells == lib_call.args[2]
TableRanges == lib_call.args[3]

\* The rows counted in lengths[i]: those at the indices start..=end.
RowsCounted(idx) ==
  {TableRows[k + 1] :
     k \in {j \in TableRanges[idx + 1].start .. TableRanges[idx + 1].end :
              j < Len(TableRows)}}

\* (i, j, X) is present in the table.
Present(idx, j, X) ==
  \E k \in 1 .. Len(lib_result.value.falseness[idx + 1]) :
    lib_result.value.falseness[idx + 1][k] = <<X, j>>

\* Some row of range i and some row of range j, the fixed bells in the same
\* places in both, are X apart: X * r2 = r1.
FalseUnder(idx, j, X) ==
  \E r1 \in RowsCounted(idx) : \E r2 \in RowsCounted(j) :
    /\ get_bell_inds(TableFixedBells, r1) = get_bell_inds(TableFixedBells, r2)
    /\ Row_mul(X, r2) = r1

Rows3 == {HuntBlock[k] : k \in 1 .. Len(HuntBlock)}

\* C38: Table::new records (i, j, X) exactly for the rows r1 of range i and
\* r2 of range j, each range with its last row (start..=end), that have the
\* fixed bells in the same places and X * r2 = r1; hence a non-empty range
\* is false against itself under the identity and the table is symmetric.
C38_TableRecordsFalsenessOfCountedRows ==
  (Called("Table::new") /\ lib_result.returned) =>
    LET n == Len(TableRanges)
    IN  /\ \A idx \in 0 .. n - 1 : \A j \in 0 .. n - 1 : \A X \in Rows3 :
             Present(idx, j, X) <=> FalseUnder(idx, j, X)
        /\ \A idx \in 0 .. n - 1 :
             lib_result.value.lengths[idx + 1] = Cardinality(RowsCounted(idx))
        /\ \A idx \in 0 .. n - 1 :
             RowsCounted(idx) # {} => Present(idx, idx, rounds)
        /\ \A idx \in 0 .. n - 1 : \A j \in 0 .. n - 1 : \A X \in Rows3 :
             Present(idx, j, X) <=> Present(j, idx, solve_xa_equals_b(X, rounds))

\* =========================================================================
\* bellframe's Block: its operations, and the iterator of repeat_iter
\* =========================================================================

\* The longest Block built, and the most calls of next() on one iterator.
MaxBlockLen == 3
MaxNextCalls == 7

\* The rows a Block is begun with and an iterator is started at.
StartRows == {rounds, <<2, 3, 1>>}

\* The Blocks that others are extended with.
OtherBlocks ==
  {with_leftover_row(<<1, 3, 2>>),
   Block(<< <<1, 2, 3>>, <<2, 1, 3>> >>, <<"a">>),
   Block(<< <<2, 1, 3>>, <<2, 3, 1>>, <<3, 2, 1>> >>, <<"b", "c">>)}

\* The ranges given: `..`, `a..`, `..b` and `a..b`.
BlockRanges ==
  {RangeBounds(start, end) :
     start \in {None} \cup {Some(k) : k \in 0 .. 2},
     end \in {None} \cup {Some(k) : k \in 0 .. 3}}

\* utils::split_vec and SameStageVec::split: the two parts of a vector, or
\* None if the index is beyond its end.
split_vec(vec, index) ==
  IF index > Len(vec) THEN None
  ELSE Some(<<SubSeq(vec, 1, index), SubSeq(vec, index + 1, Len(vec))>>)

\* A mutation of split: the first block is left without a leftover row.
split_without_leftover(self, index) ==
  IF split_vec(self.annots, index) = None THEN None
  ELSE IF split_vec(self.rows, index) = None THEN None
  ELSE Some(<<Block(split_vec(self.rows, index)[1][1],
                    split_vec(self.annots, index)[1][1]),
              Block(split_vec(self.rows, index)[1][2],
                    split_vec(self.annots, index)[1][2])>>)

\* Block::split: the annotations and the rows are split at index, and the
\* first row of the second part is pushed onto the first as its leftover.
split(self, index) ==
  IF split_vec(self.annots, index) = None THEN None
  ELSE IF split_vec(self.rows, index) = None THEN None
  ELSE Some(<<Block(Append(split_vec(self.rows, index)[1][1],
                           split_vec(self.rows, index)[1][2][1]),
                    split_vec(self.annots, index)[1][1]),
              Block(split_vec(self.rows, index)[1][2],
                    split_vec(self.annots, index)[1][2])>>)

\* An operation on the Block with its arguments and what it gave.
BlockOp(op, args, result) ==
  [op |-> op, self |-> iter_block, args |-> args, result |-> result]

BlockInit ==
  /\ SearchIdle
  /\ AbortIdle
  /\ CliIdle
  /\ BuildIdle
  /\ OptIdle
  /\ LibIdle
  /\ RowsIdle
  /\ EngIdle
  /\ iter_pc = "block"
  /\ block_op = << >>
  /\ iter_block \in {with_leftover_row(r) : r \in StartRows}
  /\ current_block_head = << >>
  /\ iter_idx = 0
  /\ iter_items = << >>

\* The Block after an operation that mutates it in place, or the panic.
Mutated(op, args, result) ==
  /\ block_op' = BlockOp(op, args, result)
  /\ IF result.returned
     THEN /\ Block_len(result.value) <= MaxBlockLen
          /\ iter_block' = result.value
          /\ UNCHANGED iter_pc
     ELSE /\ iter_pc' = "panicked"
          /\ UNCHANGED iter_block
  /\ UNCHANGED <<current_block_head, iter_idx, iter_items, notIterVars>>

\* `self.extend(other)`, which is extend_range(other, ..)
BlockExtend ==
  /\ iter_pc = "block"
  /\ \E other \in OtherBlocks :
       Mutated("extend", <<other, RangeBounds(None, None)>>,
               extend_range(iter_block, other, RangeBounds(None, None)))

BlockExtendRange ==
  /\ iter_pc = "block"
  /\ \E other \in OtherBlocks : \E range \in BlockRanges :
       Mutated("extend_range", <<other, range>>,
               extend_range(iter_block, other, range))

BlockExtendFromWithin ==
  /\ iter_pc = "block"
  /\ \E range \in BlockRanges :
       Mutated("extend_from_within", <<iter_block, range>>,
               extend_from_within(iter_block, range))

\* `self.split(index)` consumes the Block; one of the two it returns is
\* kept.
BlockSplit ==
  /\ iter_pc = "block"
  /\ \E index \in 0 .. MaxBlockLen + 1 :
       LET result == split(iter_block, index)
       IN  /\ block_op' = BlockOp("split", <<index>>, result)
           /\ IF IsSome(result)
              THEN /\ \E half \in 1 .. 2 : iter_block' = result[1][half]
                   /\ UNCHANGED iter_pc
              ELSE /\ iter_pc' = "dropped"
                   /\ UNCHANGED iter_block
  /\ UNCHANGED <<current_block_head, iter_idx, iter_items, notIterVars>>

\* Block::repeat_iter(start_row), that is RepeatIter::new
RepeatIterNew ==
  /\ iter_pc = "block"
  /\ \E start_row \in StartRows :
       /\ block_op' = BlockOp("repeat_iter", <<start_row>>, << >>)
       /\ current_block_head' = start_row
  /\ iter_pc' = "iterating"
  /\ iter_idx' = 0
  /\ iter_items' = << >>
  /\ UNCHANGED <<iter_block, notIterVars>>

\* A mutation of the iterator: the block head stays as it is.
NextHead_unchanged(head, block) == head

\* `self.current_block_head.as_row() * self.block.leftover_row()`
NextHead(head, block) == Row_mul(head, leftover_row(block))

\* RepeatIter::next: the next row of the inner iterator; when it has run
\* out, the block head is moved on and the inner iterator begun again. Its
\* first item is then returned, or None if it has none.
IterNext ==
  /\ iter_pc = "iterating"
  /\ Len(iter_items) < MaxNextCalls
  /\ LET len == Block_len(iter_block)
         ran_out == iter_idx >= len
         head == IF ran_out THEN NextHead(current_block_head, iter_block)
                 ELSE current_block_head
         source_idx == IF ran_out THEN 0 ELSE iter_idx
     IN  /\ current_block_head' = head
         /\ IF source_idx < len
            THEN /\ iter_idx' = source_idx + 1
                 /\ iter_items' =
                      Append(iter_items,
                             Some(<<Row_mul(head, iter_block.rows[source_idx + 1]),
                                    source_idx,
                                    iter_block.annots[source_idx + 1]>>))
            ELSE /\ iter_idx' = 0
                 /\ iter_items' = Append(iter_items, None)
  /\ UNCHANGED <<iter_pc, block_op, iter_block, notIterVars>>

BlockNext ==
  \/ BlockExtend
  \/ BlockExtendRange
  \/ BlockExtendFromWithin
  \/ BlockSplit
  \/ RepeatIterNew
  \/ IterNext

SpecBlock == BlockInit /\ [][BlockNext]_vars

\* ------------------------------------------------------ reading a Block
\* **Invariant**: `rows.len() = annots.len() + 1`, with at least one row.
BlockInvariant(block) ==
  Len(block.rows) = Len(block.annots) + 1 /\ Len(block.rows) >= 1

\* The bounds a range stands for in a vector of length len.
RangeStart(range) == IF IsSome(range.start) THEN range.start[1] ELSE 0
RangeEnd(range, len) == IF IsSome(range.end) THEN range.end[1] ELSE len

\* extend_range added the rows of the range to self, the first of them
\* falling on the leftover row self had.
ExtendedByRange(self, other, range, result) ==
  LET start == RangeStart(range)
      n == RangeEnd(range, Block_len(other)) - start
      T == solve_xa_equals_b(other.rows[start + 1], leftover_row(self))
  IN  /\ Block_len(result) = Block_len(self) + n
      /\ Len(result.rows) = Len(self.rows) + n
      /\ SubSeq(result.rows, 1, Len(self.rows)) = self.rows
      /\ result.rows[Block_len(self) + 1] = leftover_row(self)
      /\ \A k \in 0 .. n : result.rows[Block_len(self) + 1 + k]
                             = Row_mul(T, other.rows[start + 1 + k])
      /\ result.annots = self.annots \o SubSeq(other.annots, start + 1, start + n)

\* split(index) gave what the claim says.
SplitAsClaimed(self, index, result) ==
  /\ IsSome(result) <=> index <= Block_len(self)
  /\ IsSome(result) =>
       LET first == result[1][1]
           second == result[1][2]
       IN  /\ BlockInvariant(first)
           /\ BlockInvariant(second)
           /\ Block_len(first) = index
           /\ Block_len(second) = Block_len(self) - index
           /\ leftover_row(first) = first_row(second)
           /\ SubSeq(first.rows, 1, index) \o second.rows = self.rows
           /\ first.annots \o second.annots = self.annots

\* C36: every Block reached by with_leftover_row, extend, extend_range,
\* extend_from_within and split has one row more than annotations;
\* extend_range adds as many rows as the range has, the added rows starting
\* at the leftover row there was; split(index) returns Some iff index <= len,
\* with blocks of lengths index and len - index, the leftover row of the
\* first being the first row of the second.
C36_BlocksKeepTheirInvariant ==
  /\ iter_pc \in {"block", "iterating"} => BlockInvariant(iter_block)
  /\ (block_op # << >> /\ block_op.op \in {"extend", "extend_range"}
      /\ block_op.result.returned) =>
       ExtendedByRange(block_op.self, block_op.args[1], block_op.args[2],
                       block_op.result.value)
  /\ (block_op # << >> /\ block_op.op = "extend_from_within"
      /\ block_op.result.returned) =>
       /\ BlockInvariant(block_op.result.value)
       /\ Block_len(block_op.result.value) =
            Block_len(block_op.self)
              + RangeEnd(block_op.args[2], Block_len(block_op.self))
              - RangeStart(block_op.args[2])
  /\ (block_op # << >> /\ block_op.op = "split") =>
       SplitAsClaimed(block_op.self, block_op.args[1], block_op.result)

\* A Block of three rows, built by extensions, was split in the middle and
\* its first part kept.
C36_Witness ==
  /\ iter_pc = "block"
  /\ block_op # << >>
  /\ block_op.op = "split"
  /\ Block_len(block_op.self) = 3
  /\ block_op.args[1] = 2
  /\ iter_block = block_op.result[1][1]
  /\ leftover_row(iter_block) # leftover_row(block_op.self)

\* ---------------------------------------------------- reading the iterator
\* The row the iterator was started at.
IterStartRow == block_op.args[1]

\* The block head of repetition n.
RECURSIVE HeadOfRepetition(_)
HeadOfRepetition(n) ==
  IF n = 0 THEN IterStartRow
  ELSE Row_mul(HeadOfRepetition(n - 1), leftover_row(iter_block))

\* The item a never-ending repetition of the block yields at its k-th call.
RepeatedItem(k) ==
  LET len == Block_len(iter_block)
      pos == (k - 1) % len
  IN  Some(<<Row_mul(HeadOfRepetition((k - 1) \div len), iter_block.rows[pos + 1]),
             pos, iter_block.annots[pos + 1]>>)

====
